---- MODULE Spec2Model ----
(***************************************************************************)
(* Analytics core of the e-commerce backend: amount normalisation, invoice *)
(* line extraction, the monthly aggregator with its synthetic backfill,    *)
(* and the forecasting engine (train / predict / historical breakdown).    *)
(*                                                                         *)
(* Money is counted in hundredths of a currency unit (cents), so that the  *)
(* code's "divide by 100" and "round to 2 decimals" stay exact on          *)
(* integers.  A calendar month is the integer year * 12 + (month - 1).     *)
(***************************************************************************)
EXTENDS Integers, Sequences, FiniteSets, TLC

VARIABLES
    amt,        \* the amount normalisers: one raw value and what each returns
    xfacturas,  \* line extraction: the stored invoices, by primary key
    xorig,      \* line extraction: the payloads as they were first stored
    xitems,     \* per invoice, the calls of _extract_factura_items so far
    xlines,     \* per invoice, the calls of _expand_invoice_lines so far
    targetMonths, \* TARGET_MONTHS of the deployment
    now,      \* the server's date, [m, d]
    productos,  \* ids of the Producto rows
    usuarios,   \* usernames of the Usuario rows
    facturaTable,   \* the Factura table, in insertion order
    modelStore, \* the model file and the metadata file, None when missing
    rsp,        \* what the last call of the forecasting engine returned
    conc,       \* two requests running at once: their positions, the
                \* open transaction, the model file as it is on disk
    prm         \* the prompt parser: the request and what it parsed

amtVars == <<amt>>
extVars == <<xfacturas, xorig, xitems, xlines>>
sysVars == <<targetMonths, now, productos, usuarios, facturaTable, modelStore, rsp>>
auxVars == <<conc, prm>>
vars == <<amt, xfacturas, xorig, xitems, xlines,
          targetMonths, now, productos, usuarios, facturaTable, modelStore, rsp,
          conc, prm>>

-----------------------------------------------------------------------------
(* Bounds of the model.                                                    *)

\* raw integers tried by the normalisers: -AmountSpread .. threshold + AmountSpread
AmountSpread == 520
\* most cart items in an invoice's metadata, most raw lines in its line list
MaxCartItems == 2
MaxLines == 2

-----------------------------------------------------------------------------
(* Raw JSON values.  t is the JSON/Python type of the value, v its number  *)
(* (the integer, or the integer a numeric string spells; 0 otherwise).     *)

Absent == [t |-> "absent", v |-> 0]      \* the key is missing
Null == [t |-> "null", v |-> 0]
IntVal(n) == [t |-> "int", v |-> n]
NumStr(n) == [t |-> "numstr", v |-> n]
TextVal == [t |-> "str", v |-> 0]
ListVal == [t |-> "list", v |-> 0]

\* Python truthiness of a raw value (the `x or y` idiom): None, 0 and the
\* empty container are falsy; a non-empty string is truthy, "0" included.
Truthy(x) ==
    CASE x.t \in {"null", "absent"} -> FALSE
      [] x.t = "int" -> x.v # 0
      [] x.t = "list" -> FALSE
      [] OTHER -> TRUE

\* `a or b`
PyOr(a, b) == IF Truthy(a) THEN a ELSE b

\* cents of n whole currency units
Units(n) == n * 100

-----------------------------------------------------------------------------
(* The amount normalisers.                                                 *)

\* the value above which a number is taken to be minor units
MinorUnitThreshold == 1000

\* a boundary slip: the threshold itself taken as minor units
ConvertAmountInclusive(value) ==
    CASE value.t \in {"int", "numstr"} ->
           IF value.v >= MinorUnitThreshold THEN value.v ELSE Units(value.v)
      [] OTHER -> 0

\* prediction._convert_amount, result in cents.  float(value) accepts numbers
\* and numeric strings; None, other strings and containers give 0.0.
\* numeric / 100 units is numeric cents.
_convert_amount(value) ==
    CASE value.t \in {"int", "numstr"} ->
           IF value.v > MinorUnitThreshold THEN value.v ELSE Units(value.v)
      [] OTHER -> 0

\* report_builder._normalize_amount, result in cents.  Only int/float values
\* are rescaled; a numeric string is taken as it is spelled.
_normalize_amount(value) ==
    CASE value.t = "null" -> 0
      [] value.t = "int" ->
           IF value.v > MinorUnitThreshold THEN value.v ELSE Units(value.v)
      [] value.t = "numstr" -> Units(value.v)
      [] OTHER -> 0

AmountInts == (0 - AmountSpread) .. (MinorUnitThreshold + AmountSpread)

AmountInputs ==
    {Null, TextVal, ListVal} \cup {IntVal(n) : n \in AmountInts}
                             \cup {NumStr(n) : n \in AmountInts}

Pending == [done |-> FALSE, cents |-> 0]
Returned(c) == [done |-> TRUE, cents |-> c]

AmountIdle == amt = [value |-> Null, convert |-> Pending, normalize |-> Pending]

ExtractIdle ==
    /\ xfacturas = <<>>
    /\ xorig = <<>>
    /\ xitems = <<>>
    /\ xlines = <<>>

\* the forecasting engine before any deployment is looked at
SysIdle ==
    /\ targetMonths = 0
    /\ now = [m |-> 0, d |-> 0]
    /\ productos = {}
    /\ usuarios = {}
    /\ facturaTable = <<>>
    /\ modelStore = [model |-> <<>>, metadata |-> <<>>]
    /\ rsp = [op |-> "none"]

\* no concurrent requests
ConcIdle == conc = [phase |-> "idle"]

\* no prompt
PromptIdle == prm = [phase |-> "idle"]

AuxIdle == ConcIdle /\ PromptIdle

AmountInit ==
    /\ \E value \in AmountInputs :
          amt = [value |-> value, convert |-> Pending, normalize |-> Pending]
    /\ ExtractIdle
    /\ SysIdle
    /\ AuxIdle

\* a caller in the forecasting module normalises the value
ConvertAmount ==
    /\ ~amt.convert.done
    /\ amt' = [amt EXCEPT !.convert = Returned(_convert_amount(amt.value))]
    /\ UNCHANGED extVars
    /\ UNCHANGED sysVars
    /\ UNCHANGED auxVars

\* a caller in the report builder normalises the value
NormalizeAmount ==
    /\ ~amt.normalize.done
    /\ amt' = [amt EXCEPT !.normalize = Returned(_normalize_amount(amt.value))]
    /\ UNCHANGED extVars
    /\ UNCHANGED sysVars
    /\ UNCHANGED auxVars

AmountNext == ConvertAmount \/ NormalizeAmount

SpecAmount == AmountInit /\ [][AmountNext]_vars

-----------------------------------------------------------------------------
(* Invoice payloads (Factura.data) and line extraction.                    *)
(*                                                                         *)
(* metadata["items"] is a JSON string; items.k says what it holds:         *)
(*   "absent"  no metadata or no "items" key                               *)
(*   "list"    a JSON list of objects, items.v                             *)
(*   "badjson" a string that is not JSON                                   *)
(*   "notstr"  a value that is not a string (json.loads: TypeError)        *)
(*   "object"  a JSON object with at least one key                         *)
(*   "scalars" a non-empty JSON list whose elements are not objects        *)
(*   "number"  a JSON number                                               *)
(* data["lines"] is lines.k: "absent", "null" (the key holds None) or      *)
(* "list" (lines.v is data["lines"]["data"]).                              *)

NoItems == [k |-> "absent", v |-> <<>>]
ItemList(s) == [k |-> "list", v |-> s]
BadItems(kind) == [k |-> kind, v |-> <<>>]
NoLines == [k |-> "absent", v |-> <<>>]
NullLines == [k |-> "null", v |-> <<>>]
LineList(s) == [k |-> "list", v |-> s]

CartItem(pid, qty) == [product_id |-> pid, quantity |-> qty]
RawLine(total, subtotal, amount, qty, desc, cat) ==
    [amount_total |-> total, amount_subtotal |-> subtotal, amount |-> amount,
     quantity |-> qty, description |-> desc, category |-> cat]

\* a local binding: v is computed once and handed to F
With(v, F(_)) == F(v)

\* the sequence s with every element computed
List(s) == SubSeq(s, 1, Len(s))

\* optional values: None is the empty sequence
None == <<>>
Some(x) == <<x>>

\* dict.get(key): a missing key reads as None
Get(x) == IF x = Absent THEN Null ELSE x
\* dict.get(key, default)
GetOr(x, default) == IF x = Absent THEN default ELSE x

\* int(x): the number, or the exception int() raises
PyInt(x) ==
    CASE x.t \in {"int", "numstr"} -> [raised |-> "", v |-> x.v]
      [] x.t = "str" -> [raised |-> "ValueError", v |-> 0]
      [] OTHER -> [raised |-> "TypeError", v |-> 0]

\* label or fallback, for strings ("" is falsy)
StrOr(a, b) == IF a # "" THEN a ELSE b

Raised(exc) == [raised |-> exc, items |-> <<>>, lines |-> <<>>]
Extracted(items, lines) == [raised |-> "", items |-> items, lines |-> lines]

\* json.loads(items_payload) guarded by `if items_payload` and the except
\* clause: what cart_items is bound to
CartItems(items) ==
    CASE items.k = "list" -> [iterable |-> "list", v |-> items.v]
      [] items.k \in {"absent", "badjson", "notstr"} -> [iterable |-> "list", v |-> <<>>]
      [] OTHER -> [iterable |-> items.k, v |-> <<>>]

\* line_items of _extract_factura_items: every falsy step reads as []
LineItems(lines) == IF lines.k = "list" THEN lines.v ELSE <<>>

\* a slip in the preference: the plain amount read before the total
LineAmountPlainFirst(line) == PyOr(Get(line.amount), Get(line.amount_total))

\* the raw amount of a line as the forecasting module reads it
LineAmount(line) == PyOr(Get(line.amount_total), Get(line.amount))

\* one pass of the loop body of _extract_factura_items
DetailedItem(item, index, line_items) ==
    [product_id |-> PyInt(PyOr(Get(item.product_id), IntVal(0))).v,
     quantity |-> PyInt(PyOr(Get(item.quantity), IntVal(0))).v,
     amount |-> IF index <= Len(line_items)
                THEN Some(_convert_amount(LineAmount(line_items[index])))
                ELSE None,
     fallback |-> IF index <= Len(line_items) THEN Some(line_items[index]) ELSE None]

\* the exception the loop body raises on this item, "" if none
ItemRaises(item) ==
    LET pid == PyInt(PyOr(Get(item.product_id), IntVal(0)))
        qty == PyInt(PyOr(Get(item.quantity), IntVal(0)))
    IN IF pid.raised # "" THEN pid.raised ELSE qty.raised

\* the first exception among s[1..n], "" if none
RECURSIVE FirstRaise(_, _)
FirstRaise(s, i) ==
    IF i > Len(s) THEN ""
    ELSE IF s[i] # "" THEN s[i] ELSE FirstRaise(s, i + 1)

\* prediction._extract_factura_items
_extract_factura_items(factura) ==
    LET cart == CartItems(factura.items)
        line_items == LineItems(factura.lines)
        raises == [i \in 1..Len(cart.v) |-> ItemRaises(cart.v[i])]
    IN CASE cart.iterable = "number" -> Raised("TypeError")
         [] cart.iterable \in {"object", "scalars"} -> Raised("AttributeError")
         [] FirstRaise(raises, 1) # "" -> Raised(FirstRaise(raises, 1))
         [] OTHER ->
              Extracted([i \in 1..Len(cart.v) |->
                            DetailedItem(cart.v[i], i, line_items)],
                        line_items)

\* one pass of the loop body of _expand_invoice_lines
ExpandedLine(line) ==
    [producto |-> StrOr(line.description, "Producto sin nombre"),
     cantidad |-> PyInt(GetOr(line.quantity, IntVal(1))).v,
     total |-> _normalize_amount(
                   PyOr(PyOr(Get(line.amount_total), Get(line.amount_subtotal)),
                        Get(line.amount))),
     categoria |-> StrOr(line.category, "Sin categoria")]

\* report_builder._expand_invoice_lines; the single fallback entry carries
\* the invoice's own total, which is already in currency units
_expand_invoice_lines(factura) ==
    LET lines == factura.lines.v
        raises == [i \in 1..Len(lines) |->
                      PyInt(GetOr(lines[i].quantity, IntVal(1))).raised]
    IN CASE factura.lines.k = "null" -> Raised("AttributeError")
         [] lines = <<>> ->
              Extracted(<<>>, <<[producto |-> "Venta general", cantidad |-> 1,
                                 total |-> factura.amount_total,
                                 categoria |-> "Sin categoria"]>>)
         [] FirstRaise(raises, 1) # "" -> Raised(FirstRaise(raises, 1))
         [] OTHER -> Extracted(<<>>, [i \in 1..Len(lines) |-> ExpandedLine(lines[i])])

-----------------------------------------------------------------------------
(* The payloads extraction is tried on.                                    *)

SeqsUpTo(S, n) == UNION {[1..k -> S] : k \in 0..n}

SampleCartItems ==
    {CartItem(IntVal(1), IntVal(2)),      \* product 1, two units
     CartItem(NumStr(2), Absent),         \* product "2", no quantity
     CartItem(TextVal, IntVal(1))}        \* a product id that is no integer

SampleLines ==
    {RawLine(IntVal(1500), Absent, IntVal(1200), IntVal(2), "Mouse", "Perifericos"),
     RawLine(Absent, Absent, IntVal(150), Absent, "", ""),
     RawLine(IntVal(0), Absent, IntVal(2000), Null, "Cable", ""),
     RawLine(TextVal, Absent, IntVal(700), NumStr(3), "", "Audio")}

SampleItemsPayloads ==
    {NoItems} \cup {BadItems(k) : k \in {"badjson", "notstr", "object", "scalars", "number"}}
              \cup {ItemList(s) : s \in SeqsUpTo(SampleCartItems, MaxCartItems)}

SampleLinesPayloads ==
    {NoLines, NullLines} \cup {LineList(s) : s \in SeqsUpTo(SampleLines, MaxLines)}

SampleFacturas ==
    [amount_total : {Units(50)}, items : SampleItemsPayloads, lines : SampleLinesPayloads]

\* a second stored invoice, whose extractions come in between
OtherFactura ==
    [amount_total |-> Units(80),
     items |-> ItemList(<<CartItem(IntVal(2), IntVal(1))>>),
     lines |-> LineList(<<RawLine(Absent, Absent, IntVal(8000), IntVal(1), "Teclado", "")>>)]

NoCalls == [n |-> 0, first |-> Raised(""), last |-> Raised("")]

\* a call recorded: the first result is kept, the latest replaces the last;
\* n counts calls up to 2
Called(rec, result) ==
    [n |-> IF rec.n < 2 THEN rec.n + 1 ELSE 2,
     first |-> IF rec.n = 0 THEN result ELSE rec.first,
     last |-> result]

ExtractInit ==
    /\ AmountIdle
    /\ SysIdle
    /\ AuxIdle
    /\ \E f \in SampleFacturas : xfacturas = <<f, OtherFactura>>
    /\ xorig = xfacturas
    /\ xitems = [id \in 1..2 |-> NoCalls]
    /\ xlines = [id \in 1..2 |-> NoCalls]

\* a slip: the extractor consumes the raw lines it pairs (pops them from the
\* payload's list)
ExtractItemsConsuming(id) ==
    /\ xitems' = [xitems EXCEPT ![id] = Called(@, _extract_factura_items(xfacturas[id]))]
    /\ xfacturas' = [xfacturas EXCEPT ![id].lines.v =
                        IF @ = <<>> THEN @ ELSE Tail(@)]
    /\ UNCHANGED <<amt, xorig, xlines>>
    /\ UNCHANGED sysVars
    /\ UNCHANGED auxVars

\* the forecasting module extracts the items of invoice id; the payload is
\* only read
ExtractItems(id) ==
    /\ xitems' = [xitems EXCEPT ![id] = Called(@, _extract_factura_items(xfacturas[id]))]
    /\ UNCHANGED <<amt, xfacturas, xorig, xlines>>
    /\ UNCHANGED sysVars
    /\ UNCHANGED auxVars

\* the report builder expands the lines of invoice id; the payload is only
\* read
ExpandLines(id) ==
    /\ xlines' = [xlines EXCEPT ![id] = Called(@, _expand_invoice_lines(xfacturas[id]))]
    /\ UNCHANGED <<amt, xfacturas, xorig, xitems>>
    /\ UNCHANGED sysVars
    /\ UNCHANGED auxVars

ExtractNext ==
    \E id \in 1..2 : ExtractItems(id) \/ ExpandLines(id)

SpecExtract == ExtractInit /\ [][ExtractNext]_vars

-----------------------------------------------------------------------------
(* The calendar.                                                           *)

StartMonth == 2025 * 12                      \* January 2025
Year(m) == m \div 12
MonthOfYear(m) == (m % 12) + 1
\* strftime("%Y-%m"): the label of a month, as <<year, month>>
Label(m) == <<Year(m), MonthOfYear(m)>>
\* pd.to_datetime(label + "-01"): the month a label names
ParseLabel(label) == label[1] * 12 + (label[2] - 1)

IsLeap(y) == (y % 4 = 0 /\ y % 100 # 0) \/ y % 400 = 0
DaysInMonth(m) ==
    CASE MonthOfYear(m) \in {4, 6, 9, 11} -> 30
      [] MonthOfYear(m) = 2 -> IF IsLeap(Year(m)) THEN 29 ELSE 28
      [] OTHER -> 31

Date(m, d) == [m |-> m, d |-> d]
IsMonthEnd(date) == date.d = DaysInMonth(date.m)

Max(S) == CHOOSE x \in S : \A y \in S : y <= x
Min(S) == CHOOSE x \in S : \A y \in S : x <= y
\* the i-th smallest element of a set of numbers
NthSmallest(S, i) == CHOOSE m \in S : Cardinality({k \in S : k < m}) = i - 1
CeilDiv(a, b) == (a + b - 1) \div b

\* Decimal.quantize / round(x, 2) of the quotient a / b of two amounts in
\* cents, b > 0: to the nearest cent, a tie to the even cent
RoundDiv(a, b) ==
    LET q == a \div b
        r == a % b
    IN IF 2 * r < b THEN q
       ELSE IF 2 * r > b THEN q + 1
       ELSE IF q % 2 = 0 THEN q ELSE q + 1

\* quotient and remainder of a * b by c, for a, b >= 0 and c > 0, by
\* halving b: no intermediate value leaves the 32-bit integers
RECURSIVE MulDivMod(_, _, _)
MulDivMod(a, b, c) ==
    IF b = 0 THEN [q |-> 0, r |-> 0]
    ELSE LET h == MulDivMod(a, b \div 2, c)
             r2 == 2 * h.r + (IF b % 2 = 1 THEN a % c ELSE 0)
             q2 == 2 * h.q + (IF b % 2 = 1 THEN a \div c ELSE 0)
         IN [q |-> q2 + (r2 \div c), r |-> r2 % c]

\* round(a * b / c, 2) on amounts in cents: to the nearest cent, a tie to
\* the even cent
RoundMulDiv(a, b, c) ==
    LET d == MulDivMod(a, b, c)
    IN IF 2 * d.r < c THEN d.q
       ELSE IF 2 * d.r > c THEN d.q + 1
       ELSE IF d.q % 2 = 0 THEN d.q ELSE d.q + 1

\* the seed-th pseudo-random stream, read at position salt, reduced to 0..n-1
Draw(seed, salt, n) == (seed + salt) % n

\* a sequence rotated left by r places (a shuffle of the stream)
Rotate(s, r) == List([i \in 1..Len(s) |-> s[((i - 1 + r) % Len(s)) + 1]])

-----------------------------------------------------------------------------
(* The catalogue: Producto, Categoria and Usuario rows.                    *)

Categorias == <<"Perifericos", "Audio">>     \* Categoria rows, by id

\* Producto rows by id; categoria "" is a null foreign key; precio in cents
Catalogo ==
    <<[id |-> 1, nombre |-> "Mouse", precio |-> Units(20), stock |-> 5,
       categoria |-> "Perifericos"],
      [id |-> 2, nombre |-> "Parlante", precio |-> Units(120), stock |-> 1,
       categoria |-> "Audio"],
      [id |-> 3, nombre |-> "Cable", precio |-> Units(5), stock |-> 0,
       categoria |-> ""]>>

\* Producto.objects.order_by("id") over the rows that exist
ProductList(ids) == SelectSeq(Catalogo, LAMBDA p : p.id \in ids)
\* Usuario.objects.order_by("id")
UserList(names) == SelectSeq(<<"ana", "luis">>, LAMBDA u : u \in names)

CategoryLabel(producto) ==
    IF producto.categoria # "" THEN producto.categoria ELSE "Sin categoria"

-----------------------------------------------------------------------------
(* The synthetic backfill (pagos.services.synthetic_invoices).             *)

MIN_ORDER_TOTAL == Units(35)
MAX_ITEMS_PER_INVOICE == 3
\* defaults of ensure_synthetic_invoices
MinInvoices == 4
MaxInvoices == 12
BaseAmount == Units(900)

\* a Factura row; month is the calendar month of created_at, usuario "" a
\* null foreign key
Factura(synthetic, usuario, month, amount_total, items, lines, stock_processed) ==
    [synthetic |-> synthetic, usuario |-> usuario, month |-> month,
     amount_total |-> amount_total, items |-> items, lines |-> lines,
     stock_processed |-> stock_processed]

\* _month_starts(months) for today's date: the months ending at today's
\* month, oldest first
_month_starts(months, today) ==
    IF months <= 0 THEN <<>>
    ELSE [i \in 1..months |-> today.m - months + i]

\* _load_entities: the exception it raises, "" if none
LoadEntitiesRaises(prodIds, userNames) ==
    IF prodIds = {} \/ userNames = {} THEN "ValueError" ELSE ""

\* _load_entities: the ids (names) of the categories that have products
CategoryIds(prods) ==
    SelectSeq(Categorias, LAMBDA c : \E i \in 1..Len(prods) : prods[i].categoria = c)

\* category_map[c]
ProductsOf(prods, c) == SelectSeq(prods, LAMBDA p : p.categoria = c)

\* _safe_quantity: random.randint(1, max_quantity)
_safe_quantity(producto, seed, salt) ==
    LET max_quantity ==
            IF producto.stock > 0
            THEN Max({1, Min({2, producto.stock})})
            ELSE 2
    IN 1 + Draw(seed, salt, max_quantity)

\* one pass of the loop of _build_invoice_payload, for the product and the
\* quantity drawn; st = [items, running, pool, primary, stop]
LoopPass(st, producto, cantidad, target_total) ==
    IF producto.precio * cantidad <= 0
    THEN [st EXCEPT !.pool = Tail(st.pool) \o <<Head(st.pool)>>]
    ELSE [items |-> Append(st.items,
                        [producto |-> producto, quantity |-> cantidad,
                         total |-> producto.precio * cantidad]),
          running |-> st.running + producto.precio * cantidad,
          pool |-> Tail(st.pool) \o <<Head(st.pool)>>,
          primary |-> producto,
          stop |-> \/ st.running + producto.precio * cantidad >= target_total
                   \/ (st.running + producto.precio * cantidad) * 100
                          >= target_total * 135]

\* the loop of _build_invoice_payload from its k-th pass on
RECURSIVE BuildLoop(_, _, _, _, _)
BuildLoop(target_total, seed, salt, k, st) ==
    IF k > MAX_ITEMS_PER_INVOICE \/ st.stop THEN st
    ELSE With(IF st.items = <<>> THEN st.primary ELSE Head(st.pool),
              LAMBDA producto :
                 BuildLoop(target_total, seed, salt, k + 1,
                     LoopPass(st, producto, _safe_quantity(producto, seed, salt + k),
                              target_total)))

\* _build_invoice_payload: [total, items], items carrying each line's total
\* after the minimum-order top-up of the last one
_build_invoice_payload(primary_product, prods, target_total, seed, salt) ==
    With(BuildLoop(target_total, seed, salt, 1,
             [items |-> <<>>, running |-> 0,
              pool |-> Rotate(prods, Draw(seed, salt, Len(prods))),
              primary |-> primary_product, stop |-> FALSE]),
         LAMBDA st :
            IF st.running < MIN_ORDER_TOTAL /\ Len(st.items) > 0
            THEN [total |-> MIN_ORDER_TOTAL,
                  items |-> [st.items EXCEPT ![Len(st.items)].total =
                                @ + (MIN_ORDER_TOTAL - st.running)]]
            ELSE [total |-> st.running, items |-> st.items])

\* the Factura row created for one generated order
SyntheticFactura(usuario, month, order) ==
    Factura(TRUE, usuario, month, order.total,
        ItemList([i \in 1..Len(order.items) |->
            CartItem(IntVal(order.items[i].producto.id), IntVal(order.items[i].quantity))]),
        LineList([i \in 1..Len(order.items) |->
            RawLine(IntVal(order.items[i].total), Absent, Absent,
                    IntVal(order.items[i].quantity),
                    order.items[i].producto.nombre,
                    CategoryLabel(order.items[i].producto))]),
        TRUE)

\* the invoices of one month, from invoice_number on, inside the month's
\* transaction; env is fixed for the call, ctx = [store, ucur, pcur,
\* remaining] is what the loop carries (the rows written, the positions of
\* user_cycle and product_cycle, remaining_target)
RECURSIVE CreateInvoices(_, _, _, _, _)
CreateInvoices(env, index, invoice_count, invoice_number, ctx) ==
    IF invoice_number >= invoice_count THEN ctx
    ELSE LET queue == Rotate(env.category_ids,
                             IF env.category_ids = <<>> THEN 0
                             ELSE Draw(env.seed, index, Len(env.category_ids)))
             fromQueue == invoice_number < Len(env.category_ids)
             choices == IF fromQueue
                        THEN ProductsOf(env.prods, queue[invoice_number + 1])
                        ELSE env.prods
             primary_product ==
                 IF fromQueue
                 THEN choices[1 + Draw(env.seed, index + invoice_number, Len(choices))]
                 ELSE env.prods[(ctx.pcur % Len(env.prods)) + 1]
             usuario == env.users[(ctx.ucur % Len(env.users)) + 1]
             remaining_invoices == invoice_count - invoice_number
             target_total == Max({MIN_ORDER_TOTAL,
                                  RoundDiv(ctx.remaining, remaining_invoices)})
         IN With(_build_invoice_payload(primary_product, env.prods, target_total,
                                        env.seed, index + invoice_number),
                 LAMBDA order :
                    CreateInvoices(env, index, invoice_count, invoice_number + 1,
                        [store |-> Append(ctx.store,
                                       SyntheticFactura(usuario,
                                           env.month_starts[index + 1], order)),
                         ucur |-> ctx.ucur + 1,
                         pcur |-> IF fromQueue THEN ctx.pcur ELSE ctx.pcur + 1,
                         remaining |-> Max({0, ctx.remaining - order.total})]))

\* an exists() that looks at the generator's own invoices only
MonthHasSyntheticInvoice(store, month) ==
    \E i \in 1..Len(store) : store[i].month = month /\ store[i].synthetic

\* month_qs.exists()
MonthHasInvoice(store, month) == \E i \in 1..Len(store) : store[i].month = month

\* the monthly target drawn for a month: the floor of 45% of the base, or
\* the base with its growth term
MonthlyTotal(seed, index) ==
    IF Draw(seed, index, 2) = 0
    THEN (BaseAmount * 45) \div 100
    ELSE BaseAmount + index * ((BaseAmount * 25) \div 1000)

\* the loop of ensure_synthetic_invoices over month_starts from index on
RECURSIVE BackfillMonths(_, _, _)
BackfillMonths(env, index, ctx) ==
    IF index >= Len(env.month_starts) THEN ctx
    ELSE IF MonthHasInvoice(ctx.store, env.month_starts[index + 1])
         THEN BackfillMonths(env, index + 1, ctx)
         ELSE LET invoice_count ==
                      Max({env.required_min,
                           Min({env.max_invoices,
                                env.min_invoices + Draw(env.seed, index, 2)})})
              IN BackfillMonths(env, index + 1,
                     CreateInvoices(env, index, invoice_count, 0,
                         [ctx EXCEPT !.remaining = MonthlyTotal(env.seed, index)]))

\* ensure_synthetic_invoices(months) with its default arguments, run with
\* the random stream `seed`: the exception raised ("" if none) and the
\* invoice table afterwards
ensure_synthetic_invoices(months, today, prodIds, userNames, store, seed) ==
    IF months <= 0 THEN [raised |-> "", store |-> store]
    ELSE IF LoadEntitiesRaises(prodIds, userNames) # ""
    THEN [raised |-> LoadEntitiesRaises(prodIds, userNames), store |-> store]
    ELSE LET prods == ProductList(prodIds)
             users == UserList(userNames)
             month_starts == _month_starts(months, today)
             category_ids == CategoryIds(prods)
             required_min == Max({MinInvoices,
                                  CeilDiv(Len(users), Len(month_starts)),
                                  CeilDiv(Len(prods), Len(month_starts)),
                                  Len(category_ids)})
             env == [seed |-> seed, prods |-> prods, users |-> users,
                     month_starts |-> month_starts, category_ids |-> category_ids,
                     min_invoices |-> MinInvoices,
                     required_min |-> required_min,
                     max_invoices |-> Max({MaxInvoices, required_min})]
         IN [raised |-> "",
             store |-> BackfillMonths(env, 0,
                           [store |-> store, ucur |-> 0, pcur |-> 0,
                            remaining |-> 0]).store]

-----------------------------------------------------------------------------
(* The Monthly Aggregator (prediction._aggregate_monthly_sales).           *)

RECURSIVE SumSeq(_)
SumSeq(s) == IF s = <<>> THEN 0 ELSE Head(s) + SumSeq(Tail(s))

InvoiceMonths(store) == {store[i].month : i \in 1..Len(store)}

\* _monthly_sales_dataframe: per month that has invoices, the sum of
\* amount_total
_monthly_sales_dataframe(store) ==
    [m \in InvoiceMonths(store) |->
        SumSeq([i \in 1..Len(store) |->
                   IF store[i].month = m THEN store[i].amount_total ELSE 0])]

Bucket(index, month, total) ==
    [month_index |-> index, label |-> Label(month), total |-> total]

\* the window cut to the trailing months: the start never before the
\* desired start
StartPeriodTrailing(earliest_period, latest_period, target_months) ==
    latest_period - (target_months - 1)

\* start_period: the earliest invoice month when it is at or before the
\* desired start, else the desired start
StartPeriod(earliest_period, latest_period, target_months) ==
    LET desired_start == latest_period - (target_months - 1)
    IN IF earliest_period <= desired_start THEN earliest_period ELSE desired_start

\* a reindex that keeps only the months that have invoices
ReindexNoFill(df, start_period, latest_period) ==
    With({m \in DOMAIN df : start_period <= m /\ m <= latest_period},
         LAMBDA kept :
            [i \in 1..Cardinality(kept) |->
                Bucket(i, NthSmallest(kept, i), df[NthSmallest(kept, i)])])

\* reindex onto period_range(start_period, latest_period), fill_value 0,
\* month_index 1..len
Reindex(df, start_period, latest_period) ==
    [i \in 1..(latest_period - start_period + 1) |->
        LET m == start_period + i - 1
        IN Bucket(i, m, IF m \in DOMAIN df THEN df[m] ELSE 0)]

\* the rows returned when the invoice table is empty:
\* pd.date_range(end=today, periods=target_months, freq="M") ends at the
\* last month end that is not after today
FallbackRecords(today, target_months, seed) ==
    LET last == IF IsMonthEnd(today) THEN today.m ELSE today.m - 1
    IN [i \in 1..target_months |->
           Bucket(i, last - target_months + i, Units(1000 + Draw(seed, i, 700)))]

\* _aggregate_monthly_sales: the exception raised ("" if none), the invoice
\* table after the backfill, and the rows
_aggregate_monthly_sales(target_months, today, prodIds, userNames, store, seed) ==
    With(ensure_synthetic_invoices(target_months, today, prodIds, userNames, store, seed),
         LAMBDA ensured :
            IF ensured.raised # ""
            THEN [raised |-> ensured.raised, store |-> store, rows |-> <<>>]
            ELSE With(_monthly_sales_dataframe(ensured.store),
                      LAMBDA df :
                         IF DOMAIN df = {}
                         THEN [raised |-> "", store |-> ensured.store,
                               rows |-> FallbackRecords(today, target_months, seed)]
                         ELSE [raised |-> "", store |-> ensured.store,
                               rows |-> Reindex(df,
                                            StartPeriod(Min(DOMAIN df), Max(DOMAIN df),
                                                        target_months),
                                            Max(DOMAIN df))]))

\* _build_metadata_snapshot
_build_metadata_snapshot(rows, store, prodIds) ==
    [samples |-> Len(rows),
     invoice_count |-> Len(store),
     product_count |-> Cardinality(prodIds),
     category_count |-> Len(Categorias),
     period_from |-> IF rows = <<>> THEN None ELSE Some(rows[1].label),
     period_to |-> IF rows = <<>> THEN None ELSE Some(rows[Len(rows)].label)]

\* RandomForestRegressor.fit on (month_index, total): the fitted model is
\* kept as its training targets
Fit(rows) == [y |-> [i \in 1..Len(rows) |-> rows[i].total]]

\* model.predict(index) for an index past the training range: a forest of
\* regression trees extrapolates with a constant taken from its last leaf;
\* the model takes the last training target
RandomForestPredict(model) == model.y[Len(model.y)]

-----------------------------------------------------------------------------
(* Categories and products of the invoices (prediction._collect_factura_   *)
(* data, _aggregate_category_monthly_sales, get_historical_breakdown).     *)

\* sorted(s, key=..., reverse=True): descending and stable; the place of
\* s[i] is one more than the number of elements that go before it
SortedDesc(s) ==
    With({<<1 + Cardinality({j \in 1..Len(s) :
                               \/ s[j].key > s[i].key
                               \/ s[j].key = s[i].key /\ j < i}), i>> : i \in 1..Len(s)},
         LAMBDA places :
            List([r \in 1..Len(s) |-> s[(CHOOSE pl \in places : pl[1] = r)[2]]]))

\* sorted(totals.items(), key=total, reverse=True)
SortedByTotal(summary) ==
    With(SortedDesc(List([i \in 1..Len(summary) |->
                             [key |-> summary[i].total, e |-> summary[i]]])),
         LAMBDA keyed : List([i \in 1..Len(keyed) |-> keyed[i].e]))

\* Factura.objects.all() under Meta.ordering = ["-created_at"]: the newest
\* invoice first
NewestFirst(store) ==
    With(SortedDesc(List([i \in 1..Len(store) |->
                             [key |-> store[Len(store) + 1 - i].month,
                              e |-> store[Len(store) + 1 - i]]])),
         LAMBDA keyed : List([i \in 1..Len(keyed) |-> keyed[i].e]))

RECURSIVE Flatten(_)
Flatten(ss) == IF ss = <<>> THEN <<>> ELSE Head(ss) \o Flatten(Tail(ss))

\* the elements of s, each kept at its first occurrence
Distinct(s) ==
    With({i \in 1..Len(s) : \A j \in 1..(i - 1) : s[j] # s[i]},
         LAMBDA firsts :
            List([k \in 1..Cardinality(firsts) |-> s[NthSmallest(firsts, k)]]))

\* a dict after `totals[label] = amount` over pairs: each label with the
\* amount added last
GroupLast(pairs) ==
    With(Distinct(List([i \in 1..Len(pairs) |-> pairs[i].label])),
         LAMBDA labels :
            List([j \in 1..Len(labels) |->
                [label |-> labels[j],
                 total |-> pairs[CHOOSE i \in 1..Len(pairs) :
                                    /\ pairs[i].label = labels[j]
                                    /\ \A k \in (i + 1)..Len(pairs) :
                                          pairs[k].label # labels[j]].amount]]))

\* a defaultdict(float) after `totals[label] += amount` over pairs, as its
\* items() in insertion order
GroupTotals(pairs) ==
    With(Distinct(List([i \in 1..Len(pairs) |-> pairs[i].label])),
         LAMBDA labels :
            List([j \in 1..Len(labels) |->
                [label |-> labels[j],
                 total |-> SumSeq([i \in 1..Len(pairs) |->
                              IF pairs[i].label = labels[j] THEN pairs[i].amount
                              ELSE 0])]]))

\* products_lookup.get(product_id)
Lookup(prodIds, pid) == IF pid \in prodIds THEN Some(Catalogo[pid]) ELSE None

\* _collect_factura_data: the exception raised ("" if none) and, per
\* invoice, newest first, the invoice with its items and fallback lines
_collect_factura_data(store) ==
    With(NewestFirst(store),
         LAMBDA facturas :
            With(List([i \in 1..Len(facturas) |-> _extract_factura_items(facturas[i])]),
                 LAMBDA extracted :
                    [raised |-> FirstRaise([i \in 1..Len(facturas) |->
                                               extracted[i].raised], 1),
                     factura_items |-> List([i \in 1..Len(facturas) |->
                                           [factura |-> facturas[i],
                                            items |-> extracted[i].items,
                                            fallback_lines |-> extracted[i].lines]])]))

\* what one fallback line adds, on the `not items and fallback_lines` path
LineEntry(line) ==
    [product_label |-> StrOr(line.description, "Producto sin nombre"),
     category_label |-> "Sin categoria",
     amount |-> _convert_amount(LineAmount(line))]

\* what one cart item adds; a line at the item's position has already given
\* item.amount, so `amount is None` means there is no fallback line
ItemEntry(item, prodIds) ==
    LET product == Lookup(prodIds, item.product_id)
    IN IF product # None
       THEN [product_label |-> product[1].nombre,
             category_label |-> CategoryLabel(product[1]),
             amount |-> IF item.amount = None
                        THEN product[1].precio * item.quantity
                        ELSE item.amount[1]]
       ELSE [product_label |-> IF item.fallback = None THEN "Producto sin asociar"
                               ELSE StrOr(item.fallback[1].description,
                                          "Producto sin asociar"),
             category_label |-> "Sin categoria",
             amount |-> IF item.amount = None THEN 0 ELSE item.amount[1]]

\* the body of the loop over factura_items: what one invoice adds to the
\* product and category totals
InvoiceEntries(fi, prodIds) ==
    IF fi.items = <<>> /\ fi.fallback_lines # <<>>
    THEN [i \in 1..Len(fi.fallback_lines) |-> LineEntry(fi.fallback_lines[i])]
    ELSE [i \in 1..Len(fi.items) |-> ItemEntry(fi.items[i], prodIds)]

\* what one invoice adds to monthly_category_totals and category_totals
InvoiceContributions(fi, prodIds) ==
    With(List(InvoiceEntries(fi, prodIds)),
         LAMBDA es :
            List([j \in 1..Len(es) |->
                [label |-> es[j].category_label,
                 month |-> fi.factura.month,
                 amount |-> es[j].amount]]))

\* the loop of _aggregate_category_monthly_sales: an invoice whose month is
\* no label of rows is skipped
Contributions(rows, factura_items, prodIds) ==
    Flatten(List([i \in 1..Len(factura_items) |->
        IF Label(factura_items[i].factura.month) \in {rows[k].label : k \in 1..Len(rows)}
        THEN InvoiceContributions(factura_items[i], prodIds)
        ELSE <<>>]))

\* _aggregate_category_monthly_sales: the exception raised, category_totals
\* in insertion order, and the (category, month) contributions behind the
\* monthly frame
_aggregate_category_monthly_sales(rows, store, prodIds) ==
    With(_collect_factura_data(store),
         LAMBDA collected :
            IF collected.raised # ""
            THEN [raised |-> collected.raised, category_totals |-> <<>>,
                  contributions |-> <<>>]
            ELSE With(Contributions(rows, collected.factura_items, prodIds),
                      LAMBDA contributions :
                         [raised |-> "",
                          category_totals |-> GroupTotals(contributions),
                          contributions |-> contributions]))

\* category_df[category_df["category"] == c].sort_values("month_index"):
\* one row per month that has a contribution of the category
HistoricalSubset(contributions, c) ==
    With({contributions[k].month : k \in
             {k \in 1..Len(contributions) : contributions[k].label = c}},
         LAMBDA ms :
            List([i \in 1..Cardinality(ms) |->
                [label |-> Label(NthSmallest(ms, i)),
                 total |-> SumSeq([k \in 1..Len(contributions) |->
                              IF /\ contributions[k].label = c
                                 /\ contributions[k].month = NthSmallest(ms, i)
                              THEN contributions[k].amount ELSE 0])]]))

\* s[:n]
Truncated(s, n) == SubSeq(s, 1, Min({n, Len(s)}))

\* the totals of get_historical_breakdown over the collected invoices, and
\* its response
Breakdown(agg, fis, prodIds) ==
    With(Flatten(List([i \in 1..Len(fis) |-> InvoiceEntries(fis[i], prodIds)])),
         LAMBDA entries :
            [raised |-> "", store |-> agg.store,
             monthly_totals |-> agg.rows,
             by_product |-> Truncated(SortedByTotal(GroupTotals(
                 List([i \in 1..Len(entries) |->
                     [label |-> entries[i].product_label,
                      amount |-> entries[i].amount]]))), 20),
             by_customer |-> Truncated(SortedByTotal(GroupTotals(
                 List([i \in 1..Len(fis) |->
                     [label |-> StrOr(fis[i].factura.usuario, "Sin cliente"),
                      amount |-> fis[i].factura.amount_total]]))), 8),
             by_category |-> SortedByTotal(GroupTotals(
                 List([i \in 1..Len(entries) |->
                     [label |-> entries[i].category_label,
                      amount |-> entries[i].amount]])))])

\* the response of a call that raised
NoBreakdown(raised, store) ==
    [raised |-> raised, store |-> store, monthly_totals |-> <<>>,
     by_product |-> <<>>, by_customer |-> <<>>, by_category |-> <<>>]

\* get_historical_breakdown: the exception raised, the invoice table after
\* the backfill, and the response
get_historical_breakdown(target_months, today, prodIds, userNames, store, seed) ==
    With(_aggregate_monthly_sales(target_months, today, prodIds, userNames, store, seed),
         LAMBDA agg :
            IF agg.raised # "" THEN NoBreakdown(agg.raised, agg.store)
            ELSE With(_collect_factura_data(agg.store),
                      LAMBDA collected :
                         IF collected.raised # ""
                         THEN NoBreakdown(collected.raised, agg.store)
                         ELSE Breakdown(agg, collected.factura_items, prodIds)))

-----------------------------------------------------------------------------
(* Training and forecasting (prediction.train_model, _load_or_train_model, *)
(* get_predictions).                                                       *)

\* train_model: the exception raised, the invoice table after the backfill,
\* the model and the metadata written; the rows it trained on are kept
\* beside them
train_model(target_months, today, prodIds, userNames, store, seed) ==
    With(_aggregate_monthly_sales(target_months, today, prodIds, userNames, store, seed),
         LAMBDA agg :
            IF agg.raised # ""
            THEN [raised |-> agg.raised, store |-> store, model |-> None,
                  metadata |-> None, rows |-> <<>>]
            ELSE [raised |-> "", store |-> agg.store, rows |-> agg.rows,
                  model |-> Some(Fit(agg.rows)),
                  metadata |-> Some([trained_at |-> today,
                                     snapshot |-> _build_metadata_snapshot(
                                                      agg.rows, agg.store, prodIds)])])

\* a _load_or_train_model that writes the merged metadata back to the
\* metadata file
LoadAndAggregateSaving(target_months, today, prodIds, userNames, store, ms, seed) ==
    With(_aggregate_monthly_sales(target_months, today, prodIds, userNames, store, seed),
         LAMBDA agg :
            IF agg.raised # ""
            THEN [raised |-> agg.raised, store |-> store, ms |-> ms, rows |-> <<>>,
                  metadata |-> None]
            ELSE With(Some([trained_at |-> ms.metadata[1].trained_at,
                            snapshot |-> _build_metadata_snapshot(
                                             agg.rows, agg.store, prodIds)]),
                      LAMBDA merged :
                         [raised |-> "", store |-> agg.store,
                          ms |-> [model |-> ms.model, metadata |-> merged],
                          rows |-> agg.rows, metadata |-> merged]))

\* _load_or_train_model from joblib.load on: the model store is ms, the
\* invoice table store
LoadAndAggregate(target_months, today, prodIds, userNames, store, ms, seed) ==
    With(_aggregate_monthly_sales(target_months, today, prodIds, userNames, store, seed),
         LAMBDA agg :
            IF agg.raised # ""
            THEN [raised |-> agg.raised, store |-> store, ms |-> ms, rows |-> <<>>,
                  metadata |-> None]
            ELSE [raised |-> "", store |-> agg.store, ms |-> ms, rows |-> agg.rows,
                  metadata |-> Some([trained_at |-> ms.metadata[1].trained_at,
                                     snapshot |-> _build_metadata_snapshot(
                                                      agg.rows, agg.store, prodIds)])])

\* _load_or_train_model: trains when no model file exists, then aggregates
\* again; the second backfill finds every month of the window populated
_load_or_train_model(target_months, today, prodIds, userNames, store, ms, seed) ==
    IF ms.model # None
    THEN LoadAndAggregate(target_months, today, prodIds, userNames, store, ms, seed)
    ELSE With(train_model(target_months, today, prodIds, userNames, store, seed),
              LAMBDA trained :
                 IF trained.raised # ""
                 THEN [raised |-> trained.raised, store |-> store, ms |-> ms,
                       rows |-> <<>>, metadata |-> None]
                 ELSE LoadAndAggregate(target_months, today, prodIds, userNames,
                          trained.store,
                          [model |-> trained.model, metadata |-> trained.metadata],
                          seed))

\* date + pd.offsets.MonthEnd(1): a date that is not a month end rolls to
\* the end of its own month, a month end to the end of the next month
MonthEndOffset(date) ==
    IF IsMonthEnd(date) THEN Date(date.m + 1, DaysInMonth(date.m + 1))
    ELSE Date(date.m, DaysInMonth(date.m))

\* pd.date_range(start=start, periods=periods, freq="M"), as months: the
\* month ends from the first one that is not before start
MonthEndRange(start, periods) == [i \in 1..periods |-> start.m + i - 1]

\* a category is fitted its own model from two monthly buckets on
OwnModelFromTwo(historical_subset) == Len(historical_subset) >= 2

\* len(historical_subset) >= 3
OwnModel(historical_subset) == Len(historical_subset) >= 3

\* sum(category_totals.values()) or 1.0
OverallTotal(category_totals) ==
    LET s == SumSeq([i \in 1..Len(category_totals) |-> category_totals[i].total])
    IN IF s = 0 THEN Units(1) ELSE s

\* round(float(value) * share, 2) with share = total / overall_total; a zero
\* overall total is a division by zero
Proportional(value, total, overall_total) ==
    IF overall_total = 0 THEN 0 - 1 ELSE RoundMulDiv(value, total, overall_total)

\* one entry of category_predictions; total and own_model are kept beside
\* the four fields of the response
CategoryPrediction(category, future_months, predicted, contributions, overall_total) ==
    With(HistoricalSubset(contributions, category.label),
         LAMBDA historical_subset :
            [category |-> category.label,
             share |-> IF overall_total = 0 THEN 0 - 1
                       ELSE RoundMulDiv(category.total, 10000, overall_total),
             historical |-> historical_subset,
             predictions |-> [i \in 1..Len(future_months) |->
                 [label |-> Label(future_months[i]),
                  total |-> IF OwnModel(historical_subset)
                            THEN RandomForestPredict(Fit(historical_subset))
                            ELSE Proportional(predicted[i], category.total,
                                              overall_total)]],
             total |-> category.total,
             own_model |-> OwnModel(historical_subset)])

\* the response of a call that raised
NoPredictions(raised, loaded) ==
    [raised |-> raised, store |-> loaded.store, ms |-> loaded.ms,
     rows |-> <<>>, predicted |-> <<>>, predictions |-> <<>>,
     by_category |-> <<>>, metadata |-> None]

\* get_predictions from `last_label = rows[-1]["label"]` on
Predictions(months, today, prodIds, loaded, cats) ==
    LET rows == loaded.rows
        last_date == Date(ParseLabel(rows[Len(rows)].label), 1)
        predicted == [i \in 1..months |-> RandomForestPredict(loaded.ms.model[1])]
        future_dates == MonthEndRange(MonthEndOffset(last_date), months)
    IN [raised |-> "", store |-> loaded.store, ms |-> loaded.ms,
        rows |-> rows, predicted |-> predicted,
        predictions |-> [i \in 1..months |->
                            [label |-> Label(future_dates[i]),
                             total |-> predicted[i]]],
        by_category |->
            With(SortedByTotal(cats.category_totals),
                 LAMBDA sorted_categories :
                    [j \in 1..Len(sorted_categories) |->
                        CategoryPrediction(sorted_categories[j], future_dates,
                            predicted, cats.contributions,
                            OverallTotal(cats.category_totals))]),
        metadata |-> Some([trained_at |-> loaded.metadata[1].trained_at,
                           snapshot |-> loaded.metadata[1].snapshot,
                           generated_at |-> today])]

\* get_predictions before it uses `months`: the model and series loaded and
\* the category series
PredictionInputs(target_months, today, prodIds, userNames, store, ms, seed) ==
    With(_load_or_train_model(target_months, today, prodIds, userNames, store, ms, seed),
         LAMBDA loaded :
            IF loaded.raised # ""
            THEN [raised |-> loaded.raised, loaded |-> loaded, cats |-> None]
            ELSE With(_aggregate_category_monthly_sales(loaded.rows, loaded.store,
                                                        prodIds),
                      LAMBDA cats :
                         [raised |-> cats.raised, loaded |-> loaded, cats |-> cats]))

\* get_predictions from future_dates on, p being what PredictionInputs gave
PredictionsFrom(months, today, prodIds, p) ==
    IF p.raised # "" THEN NoPredictions(p.raised, p.loaded)
    ELSE Predictions(months, today, prodIds, p.loaded, p.cats)

\* get_predictions(months): the exception raised, the invoice table and the
\* model store after the call, and the response; rows and predicted are
\* kept beside the response
get_predictions(months, target_months, today, prodIds, userNames, store, ms, seed) ==
    PredictionsFrom(months, today, prodIds,
        PredictionInputs(target_months, today, prodIds, userNames, store, ms, seed))

-----------------------------------------------------------------------------
(* The forecasting engine as a system: a deployment with its catalogue and *)
(* invoice history, the clock, and the three operations of the analytics   *)
(* API.                                                                    *)

\* TARGET_MONTHS is 1 or MaxTargetMonths
MaxTargetMonths == 3
\* the oldest real invoice lies MaxHistory months before the first day
MaxHistory == 4
\* the pseudo-random streams tried are the first one and the MaxSeed-th
MaxSeed == 1
\* the months argument of get_predictions is 1 or MaxPredictMonths
MaxPredictMonths == 2
\* the clock ticks MaxTicks times, twice a month
MaxTicks == 2

\* real invoices as the webhook stores them (views._store_invoice), at
\* month m
BareFactura(m) == Factura(FALSE, "", m, Units(50), NoItems, NoLines, FALSE)
CartLineFactura(m) ==
    Factura(FALSE, "ana", m, Units(40),
            ItemList(<<CartItem(IntVal(1), IntVal(2))>>),
            LineList(<<RawLine(IntVal(4000), Absent, Absent, IntVal(2), "Mouse", "")>>),
            TRUE)
LinesFactura(m) ==
    Factura(FALSE, "luis", m, Units(15), NoItems,
            LineList(<<RawLine(IntVal(1500), Absent, Absent, IntVal(1), "Teclado", "")>>),
            FALSE)
CartFactura(m) ==
    Factura(FALSE, "ana", m, Units(240),
            ItemList(<<CartItem(IntVal(2), IntVal(2))>>), NoLines, TRUE)

FullCatalogue == [productos |-> {1, 2, 3}, usuarios |-> {"ana", "luis"}]
\* one product, without a category
SmallCatalogue == [productos |-> {3}, usuarios |-> {"ana"}]
\* a shop with no product yet
EmptyCatalogue == [productos |-> {}, usuarios |-> {"ana"}]

Deployment(catalogue, history) == [catalogue |-> catalogue, history |-> history]

\* the deployments tried: a catalogue and the real invoices already stored,
\* oldest first
Deployments ==
    {Deployment(FullCatalogue, <<>>),
     Deployment(FullCatalogue, <<BareFactura(StartMonth)>>),
     Deployment(FullCatalogue, <<BareFactura(StartMonth - MaxHistory)>>),
     Deployment(FullCatalogue, <<CartLineFactura(StartMonth)>>),
     Deployment(FullCatalogue, <<LinesFactura(StartMonth - MaxHistory)>>),
     Deployment(FullCatalogue, <<LinesFactura(StartMonth - 1), LinesFactura(StartMonth)>>),
     Deployment(FullCatalogue, <<CartFactura(StartMonth)>>),
     Deployment(SmallCatalogue, <<CartFactura(StartMonth)>>),
     Deployment(EmptyCatalogue, <<>>)}

NoModel == [model |-> None, metadata |-> None]

Init ==
    /\ AmountIdle
    /\ ExtractIdle
    /\ AuxIdle
    /\ targetMonths \in {1, MaxTargetMonths}
    /\ now = Date(StartMonth, 15)
    /\ \E d \in Deployments :
          /\ productos = d.catalogue.productos
          /\ usuarios = d.catalogue.usuarios
          /\ facturaTable = d.history
    /\ modelStore = NoModel
    /\ rsp = [op |-> "none"]

\* the ticks of the clock since the first day
Ticks == 2 * (now.m - StartMonth) + (IF IsMonthEnd(now) THEN 1 ELSE 0)

\* time passes: to the last day of the month, then to the 15th of the next
Tick ==
    /\ Ticks < MaxTicks
    /\ now' = IF IsMonthEnd(now) THEN Date(now.m + 1, 15)
              ELSE Date(now.m, DaysInMonth(now.m))
    /\ UNCHANGED <<amt, xfacturas, xorig, xitems, xlines, targetMonths, productos,
                   usuarios, facturaTable, modelStore, rsp>>
    /\ UNCHANGED auxVars

\* the pseudo-random streams a call is tried with: the backfill draws only
\* for a month of the window that has no invoice, so when every month has
\* one a single stream stands for all
Seeds ==
    IF \A i \in 1..targetMonths :
           MonthHasInvoice(facturaTable, _month_starts(targetMonths, now)[i])
    THEN {0}
    ELSE {0, MaxSeed}

\* POST train: train_model(); r is what the call returns
TrainModel ==
    \E seed \in Seeds :
      \E r \in {train_model(targetMonths, now, productos, usuarios, facturaTable, seed)} :
        /\ facturaTable' = r.store
        /\ modelStore' = IF r.raised = ""
                         THEN [model |-> r.model, metadata |-> r.metadata]
                         ELSE modelStore
        /\ rsp' = [op |-> "train", raised |-> r.raised, rows |-> r.rows,
                   months_before |-> InvoiceMonths(facturaTable),
                   metadata |-> r.metadata]
        /\ UNCHANGED <<amt, xfacturas, xorig, xitems, xlines, targetMonths, now,
                       productos, usuarios>>
        /\ UNCHANGED auxVars

\* GET predictions: get_predictions(months), its part that does not depend
\* on months computed once for both values of months
GetPredictions ==
    \E seed \in Seeds :
      \E p \in {PredictionInputs(targetMonths, now, productos, usuarios,
                                 facturaTable, modelStore, seed)} :
        \E months \in {1, MaxPredictMonths} :
          \E r \in {PredictionsFrom(months, now, productos, p)} :
            /\ facturaTable' = r.store
            /\ modelStore' = r.ms
            /\ rsp' = [op |-> "predict", raised |-> r.raised, months |-> months,
                       rows |-> r.rows,
                       months_before |-> InvoiceMonths(facturaTable),
                       predicted |-> r.predicted, predictions |-> r.predictions,
                       by_category |-> r.by_category, metadata |-> r.metadata]
            /\ UNCHANGED <<amt, xfacturas, xorig, xitems, xlines, targetMonths,
                           now, productos, usuarios>>
            /\ UNCHANGED auxVars

\* GET history: get_historical_breakdown()
GetHistoricalBreakdown ==
    \E seed \in Seeds :
      \E r \in {get_historical_breakdown(targetMonths, now, productos, usuarios,
                                         facturaTable, seed)} :
        /\ facturaTable' = r.store
        /\ rsp' = [op |-> "history", raised |-> r.raised,
                   rows |-> r.monthly_totals,
                   months_before |-> InvoiceMonths(facturaTable),
                   by_product |-> r.by_product, by_customer |-> r.by_customer,
                   by_category |-> r.by_category]
        /\ UNCHANGED <<amt, xfacturas, xorig, xitems, xlines, targetMonths, now,
                       productos, usuarios, modelStore>>
        /\ UNCHANGED auxVars

\* a query parameter that is the empty string
EmptyText == [t |-> "empty", v |-> 0]

\* the values tried for limit_products and limit_customers: missing, "",
\* "2", "0" and a word
LimitParams == {Absent, EmptyText, NumStr(2), NumStr(0), TextVal}

\* _parse_limit of SalesHistoryView.get: the exception raised and the limit
_parse_limit(raw) ==
    IF raw.t \in {"absent", "empty"} THEN [raised |-> "", limit |-> None]
    ELSE IF raw.t # "numstr" THEN [raised |-> "ValueError", limit |-> None]
    ELSE IF raw.v <= 0 THEN [raised |-> "", limit |-> None]
    ELSE [raised |-> "", limit |-> Some(raw.v)]

\* the keyword parameters get_historical_breakdown is declared with: none
HistoricalBreakdownKeywords == {}

\* Python binding the keyword arguments of a call: TypeError for a keyword
\* the function does not declare
CallRaises(declared, passed) == IF passed \subseteq declared THEN "" ELSE "TypeError"

\* GET sales history: SalesHistoryView.get parses the two limits and calls
\* get_historical_breakdown(limit_products=..., limit_customers=...)
SalesHistoryView ==
    /\ \E raw_products \in LimitParams, raw_customers \in LimitParams :
         \E lp \in {_parse_limit(raw_products)}, lc \in {_parse_limit(raw_customers)} :
            IF lp.raised # "" \/ lc.raised # ""
            THEN /\ rsp' = [op |-> "sales_history", raised |-> "", status |-> 400,
                            detail |-> IF lp.raised # "" THEN "limit_products"
                                       ELSE "limit_customers"]
                 /\ UNCHANGED facturaTable
            ELSE IF CallRaises(HistoricalBreakdownKeywords,
                               {"limit_products", "limit_customers"}) # ""
            THEN /\ rsp' = [op |-> "sales_history",
                            raised |-> CallRaises(HistoricalBreakdownKeywords,
                                           {"limit_products", "limit_customers"}),
                            status |-> 500, detail |-> ""]
                 /\ UNCHANGED facturaTable
            ELSE \E seed \in Seeds :
                   \E r \in {get_historical_breakdown(targetMonths, now, productos,
                                                      usuarios, facturaTable, seed)} :
                     /\ facturaTable' = r.store
                     /\ rsp' = [op |-> "sales_history", raised |-> r.raised,
                                status |-> IF r.raised = "" THEN 200 ELSE 500,
                                detail |-> "", rows |-> r.monthly_totals,
                                by_product |-> r.by_product,
                                by_customer |-> r.by_customer,
                                by_category |-> r.by_category]
    /\ UNCHANGED <<amt, xfacturas, xorig, xitems, xlines, targetMonths, now,
                   productos, usuarios, modelStore>>
    /\ UNCHANGED auxVars

Next ==
    \/ Tick
    \/ TrainModel
    \/ GetPredictions
    \/ GetHistoricalBreakdown
    \/ SalesHistoryView

Spec == Init /\ [][Next]_vars

-----------------------------------------------------------------------------
(* C4, C5: the Amount Normalizer.                                          *)

\* a value the claim calls numeric: a JSON number
IsNumber(x) == x.t = "int"
\* null or non-numeric input
IsNonNumeric(x) == x.t \in {"null", "str", "list"}

C4Holds(value, out) ==
    /\ IsNonNumeric(value) => out = 0
    /\ IsNumber(value) /\ value.v > 1000 => out * 100 = Units(value.v)
    /\ IsNumber(value) /\ value.v <= 1000 => out = Units(value.v)
    /\ value = IntVal(1500) => out = Units(15)
    /\ value = IntVal(150) => out = Units(150)
    /\ value = IntVal(1000) => out = Units(1000)

C5_NonNegative ==
    /\ amt.convert.done => amt.convert.cents >= 0
    /\ amt.normalize.done => amt.normalize.cents >= 0

-----------------------------------------------------------------------------
(* C6, C8, C9: the Invoice Line Extractor.                                 *)

\* a cart item the extractor can parse: product id and quantity are
\* integers, strings of digits, or missing
Parseable(item) ==
    /\ item.product_id.t \in {"int", "numstr", "absent", "null"}
    /\ item.quantity.t \in {"int", "numstr", "absent", "null"}

\* the integer a parseable field spells (a missing one counts 0)
IntOf(x) == IF x.t \in {"int", "numstr"} THEN x.v ELSE 0

\* the field of a raw line the amount is read from: the total when the line
\* has one (a missing, null or zero total counts as none), else the amount
PreferredField(line) ==
    IF line.amount_total.t \in {"absent", "null"} \/ line.amount_total = IntVal(0)
    THEN Get(line.amount)
    ELSE line.amount_total

\* the normalised amount of a raw value, as C4 states it
NormalisedCents(x) ==
    IF x.t \in {"int", "numstr"}
    THEN (IF x.v > 1000 THEN x.v ELSE Units(x.v))
    ELSE 0

C6Holds(factura, result) ==
    LET cart == factura.items.v
        k == Len(cart)
        raw == IF factura.lines.k = "list" THEN factura.lines.v ELSE <<>>
        n == Len(raw)
    IN (factura.items.k = "list" /\ \A i \in 1..k : Parseable(cart[i])) =>
         /\ result.raised = ""
         /\ Len(result.items) = k
         /\ \A i \in 1..k :
              /\ result.items[i].product_id = IntOf(cart[i].product_id)
              /\ result.items[i].quantity = IntOf(cart[i].quantity)
              /\ i <= n => result.items[i].amount =
                               Some(NormalisedCents(PreferredField(raw[i])))
              /\ i > n => result.items[i].amount = None

\* C6: with k parseable cart items and n raw lines the extractor returns
\* exactly k entries in cart order; entry i takes product id and quantity
\* from cart item i; for i <= n (1-based) its amount is the normalised value
\* of raw line i, the total field preferred over the plain amount; for
\* i > n its amount is null; nothing is raised.
C6_PositionalPairing ==
    \A id \in DOMAIN xitems :
        xitems[id].n > 0 => C6Holds(xfacturas[id], xitems[id].last)

\* two cart items paired with a single raw line, whose total and plain
\* amount differ: the first entry carries the total, the second no amount
C6_Witness ==
    /\ xitems # <<>>
    /\ xitems[1].n > 0
    /\ xfacturas[1].items.k = "list"
    /\ Len(xfacturas[1].items.v) = 2
    /\ \A i \in 1..2 : Parseable(xfacturas[1].items.v[i])
    /\ xfacturas[1].lines.k = "list"
    /\ Len(xfacturas[1].lines.v) = 1
    /\ xfacturas[1].lines.v[1].amount_total = IntVal(1500)
    /\ xfacturas[1].lines.v[1].amount = IntVal(1200)
    /\ xitems[1].last.items[1].amount = Some(Units(15))
    /\ xitems[1].last.items[2].amount = None

\* C8: line extraction never raises, whatever the payload: missing keys, a
\* metadata items value that is no JSON list of objects, a non-integer
\* product id or quantity, a non-numeric amount.
C8_NeverRaises ==
    /\ \A id \in DOMAIN xitems : xitems[id].n > 0 => xitems[id].last.raised = ""
    /\ \A id \in DOMAIN xlines : xlines[id].n > 0 => xlines[id].last.raised = ""

-----------------------------------------------------------------------------
(* C1, C2: the Monthly Aggregator.  Every operation of the engine starts   *)
(* with _aggregate_monthly_sales and hands its rows on; rsp.rows are the   *)
(* rows of the last call, facturaTable the invoice table it read (a Tick   *)
(* leaves both alone) and rsp.months_before the invoice months there were  *)
(* before the call.                                                        *)

Answered == rsp.op \in {"train", "predict", "history"} /\ rsp.raised = ""

BucketMonth(i) == ParseLabel(rsp.rows[i].label)
LatestInvoiceMonth == Max(InvoiceMonths(facturaTable))
EarliestInvoiceMonth == Min(InvoiceMonths(facturaTable))

\* month_index is 1..len in order, the labels are consecutive months
DenseRows ==
    /\ \A i \in 1..Len(rsp.rows) : rsp.rows[i].month_index = i
    /\ \A i \in 1..(Len(rsp.rows) - 1) : BucketMonth(i + 1) = BucketMonth(i) + 1

SpanBefore == Max(rsp.months_before) - Min(rsp.months_before) + 1

C2_ShortHistoryReached ==
    /\ Answered
    /\ rsp.months_before # {}
    /\ SpanBefore < targetMonths
    /\ BucketMonth(1) < Min(rsp.months_before)

-----------------------------------------------------------------------------
(* C3, C10: get_predictions.                                               *)

Predicted == rsp.op = "predict" /\ rsp.raised = ""

\* C3: predict(m) returns m predictions whose labels are consecutive
\* increasing months, the first the month after the last historical bucket
C3_FutureLabels ==
    Predicted =>
        /\ Len(rsp.predictions) = rsp.months
        /\ \A i \in 1..(rsp.months - 1) :
              ParseLabel(rsp.predictions[i + 1].label)
                  = ParseLabel(rsp.predictions[i].label) + 1
        /\ ParseLabel(rsp.predictions[1].label) = BucketMonth(Len(rsp.rows)) + 1

\* what the code does instead: the first prediction carries the label of
\* the last historical bucket
C3_FirstLabelRepeatsLast ==
    Predicted => rsp.predictions[1].label = rsp.rows[Len(rsp.rows)].label

GrandTotal == SumSeq([j \in 1..Len(rsp.by_category) |-> rsp.by_category[j].total])

\* C10: a category with at least 3 monthly buckets carries the forecast of
\* a model fitted on its own buckets; a category with fewer carries, for
\* every future month, the overall forecast value times category total /
\* grand total rounded to the cent, the grand total read as 1.0 when zero
C10_CategoryForecast ==
    Predicted =>
        \A j \in 1..Len(rsp.by_category) :
            LET e == rsp.by_category[j]
                grand == IF GrandTotal = 0 THEN Units(1) ELSE GrandTotal
            IN /\ Len(e.predictions) = rsp.months
               /\ e.own_model <=> Len(e.historical) >= 3
               /\ Len(e.historical) >= 3 =>
                     \A i \in 1..rsp.months :
                         e.predictions[i].total = RandomForestPredict(Fit(e.historical))
               /\ Len(e.historical) < 3 =>
                     \A i \in 1..rsp.months :
                         e.predictions[i].total
                             = RoundMulDiv(rsp.predicted[i], e.total, grand)

\* one response with a category on its own model, a category with two
\* buckets on the proportional fallback, and a share that is no whole cent
C10_Witness ==
    /\ Predicted
    /\ \E j \in 1..Len(rsp.by_category) : Len(rsp.by_category[j].historical) >= 3
    /\ \E j \in 1..Len(rsp.by_category) :
          /\ Len(rsp.by_category[j].historical) = 2
          /\ rsp.by_category[j].total > 0
          /\ rsp.by_category[j].predictions[1].total > 0
          /\ MulDivMod(rsp.predicted[1], rsp.by_category[j].total, GrandTotal).r # 0

\* the grand total is zero and a category is forecast all the same
C10_ZeroTotalReached ==
    /\ Predicted
    /\ GrandTotal = 0
    /\ Len(rsp.by_category) > 0

-----------------------------------------------------------------------------
(* C7: an invoice with neither cart items nor raw lines.                   *)

\* what an invoice adds to the per-category and per-product totals when the
\* entry synthesised for a bare invoice is counted
CountedTotal(factura) ==
    LET x == _extract_factura_items(factura)
        es == InvoiceEntries([factura |-> factura, items |-> x.items,
                              fallback_lines |-> x.lines], productos)
    IN IF x.items = <<>> /\ x.lines = <<>>
       THEN _expand_invoice_lines(factura).lines[1].total
       ELSE SumSeq([i \in 1..Len(es) |-> es[i].amount])

TableTotal == SumSeq([i \in 1..Len(facturaTable) |-> CountedTotal(facturaTable[i])])

\* C7: the total of a bare invoice is counted in the per-category
\* aggregations: the categories of the historical breakdown, and those of
\* the category forecast, add up to what the invoices of the table add up
\* to, each bare invoice counted with its total
C7_BareInvoiceCounted ==
    /\ (rsp.op = "history" /\ rsp.raised = "") =>
          SumSeq([j \in 1..Len(rsp.by_category) |-> rsp.by_category[j].total])
              = TableTotal
    /\ Predicted => GrandTotal = TableTotal

-----------------------------------------------------------------------------
(* The model store across calls.                                           *)

\* C11: the model file and the metadata file change only in train(), or in
\* a predict() that found no model file; a predict() that finds none and
\* does not fail leaves one behind; with a model stored, predict() and
\* historical_breakdown() leave both files as they were
C11_ModelReplacedOnlyByTrain ==
    [][/\ modelStore' # modelStore =>
            \/ rsp'.op = "train"
            \/ rsp'.op = "predict" /\ modelStore.model = None
       /\ (rsp'.op = "predict" /\ rsp'.raised = "") => modelStore'.model # None
      ]_vars

\* a predict() answered from a model that was trained on an earlier day
C11_Witness ==
    /\ rsp.op = "predict"
    /\ rsp.raised = ""
    /\ modelStore.model # None
    /\ modelStore.metadata[1].trained_at # now

\* a historical_breakdown() answered while a model is stored
C11_HistoryWithModel ==
    rsp.op = "history" /\ rsp.raised = "" /\ modelStore.model # None

-----------------------------------------------------------------------------
(* The backfill when nothing can be generated.                             *)

\* C14: ensure_synthetic_invoices never raises, so train(), predict() and
\* historical_breakdown() complete even when no product or no user exists
C14_BackfillNeverRaises ==
    rsp.op \in {"train", "predict", "history"} => rsp.raised = ""

\* what the backfill does guarantee: a call that returns leaves an invoice
\* in every month of the window it was asked for, and it raises exactly
\* when the product table or the user table is empty
C14_RaisesOnlyWithoutEntities ==
    rsp.op \in {"train", "predict", "history"} =>
        /\ rsp.raised = "ValueError" <=> (productos = {} \/ usuarios = {})
        /\ rsp.raised \in {"", "ValueError"}

\* C15: with no invoice in the store and a backfill that creates none,
\* historical_breakdown returns TARGET_MONTHS monthly totals, none
\* negative, and empty by_product, by_customer and by_category
C15_EmptyStoreFallback ==
    (rsp.op = "history" /\ facturaTable = <<>>) =>
        /\ rsp.raised = ""
        /\ Len(rsp.rows) = targetMonths
        /\ \A i \in 1..Len(rsp.rows) : rsp.rows[i].total >= 0
        /\ rsp.by_product = <<>>
        /\ rsp.by_customer = <<>>
        /\ rsp.by_category = <<>>

\* the store is empty after a call only when the call raised
C15_EmptyOnlyWhenRaised ==
    (rsp.op \in {"train", "predict", "history"} /\ facturaTable = <<>>) =>
        rsp.raised = "ValueError"

-----------------------------------------------------------------------------
(* The sales-history endpoint.                                             *)

\* the response lists are in descending order of total
SortedDescending(summary) ==
    \A i \in 1..Len(summary) - 1 : summary[i].total >= summary[i + 1].total

\* C19: a sales-history request whose limits parse completes without error
C19_LimitsAccepted ==
    (rsp.op = "sales_history" /\ rsp.status # 400) => rsp.raised = ""

\* what the service function does when called without limits: the three
\* lists are sorted by total descending, by_product holds at most 20 entries
\* and by_customer at most 8
C19_ServiceSorted ==
    (rsp.op = "history" /\ rsp.raised = "") =>
        /\ SortedDescending(rsp.by_product) /\ Len(rsp.by_product) <= 20
        /\ SortedDescending(rsp.by_customer) /\ Len(rsp.by_customer) <= 8
        /\ SortedDescending(rsp.by_category)

\* every sales-history request either is refused for a limit that is not an
\* integer or fails with TypeError
C19_EndpointAlwaysFails ==
    rsp.op = "sales_history" =>
        \/ rsp.status = 400 /\ rsp.raised = ""
        \/ rsp.status = 500 /\ rsp.raised = "TypeError"

-----------------------------------------------------------------------------
(* The Prompt Parser (analitica/services/prompt_parser.py).  A prompt is a *)
(* sequence of words; `kw in prompt` is true when some word of the         *)
(* lower-cased prompt contains kw.  A date-like token is a word that the   *)
(* pattern \d{1,2}[/-]\d{1,2}[/-]\d{2,4} matches whole.                     *)

\* most words in a prompt of format words, most phrases in a prompt of
\* dates
MaxWords == 3

\* the words tried
PromptWords == {"ventas", "pdf", "PDF", "excel", "XLSX", "pantalla"}

\* str.lower() of a word
Lower(w) ==
    CASE w = "PDF" -> "pdf"
      [] w = "XLSX" -> "xlsx"
      [] w = "Setiembre" -> "setiembre"
      [] OTHER -> w

\* prompt.lower()
LowerPrompt(prompt) == [i \in 1..Len(prompt) |-> Lower(prompt[i])]

\* `kw in prompt`: the comparison is of characters, so a word in capitals
\* does not contain the keyword
Contains(prompt, kw) == \E i \in 1..Len(prompt) : prompt[i] = kw

\* _detect_format(prompt, fallback)
_detect_format(prompt, fallback) ==
    IF Contains(prompt, "pdf") THEN "pdf"
    ELSE IF Contains(prompt, "excel") \/ Contains(prompt, "xlsx") THEN "excel"
    ELSE IF Contains(prompt, "pantalla") THEN "screen"
    ELSE IF fallback # None /\ fallback[1] # "" THEN fallback[1]
    ELSE "screen"

\* the date-like tokens tried: a date, one with a 2-digit year and dashes,
\* the 31st of February and 99/99/99
DateTokens == {"01/03/2024", "15-03-24", "31/02/2024", "99/99/99"}

\* re.split(r"[/-]", raw) of a date-like token, as numbers
SplitDate(raw) ==
    CASE raw = "01/03/2024" -> <<1, 3, 2024>>
      [] raw = "15-03-24" -> <<15, 3, 24>>
      [] raw = "31/02/2024" -> <<31, 2, 2024>>
      [] raw = "99/99/99" -> <<99, 99, 99>>

\* date(year, month, day): ValueError for a day no calendar has
MakeDate(year, month, day) ==
    IF year \in 1..9999 /\ month \in 1..12
    THEN IF day \in 1..DaysInMonth(year * 12 + month - 1)
         THEN [raised |-> "", date |-> Some(Date(year * 12 + month - 1, day))]
         ELSE [raised |-> "ValueError", date |-> None]
    ELSE [raised |-> "ValueError", date |-> None]

\* _to_date(raw)
_to_date(raw) ==
    With(SplitDate(raw),
         LAMBDA parts :
            MakeDate(IF parts[3] < 100 THEN parts[3] + 2000 ELSE parts[3],
                     parts[2], parts[1]))

\* re.findall(pattern, prompt): the date-like tokens of the prompt in order
DateMatches(prompt) == SelectSeq(prompt, LAMBDA w : w \in DateTokens)

\* _parse_explicit_dates(prompt): the exception raised, start and end
_parse_explicit_dates(prompt) ==
    With(DateMatches(prompt),
         LAMBDA matches :
            IF Len(matches) >= 2
            THEN IF _to_date(matches[1]).raised # ""
                 THEN [raised |-> _to_date(matches[1]).raised,
                       start |-> None, end |-> None]
                 ELSE IF _to_date(matches[2]).raised # ""
                 THEN [raised |-> _to_date(matches[2]).raised,
                       start |-> None, end |-> None]
                 ELSE [raised |-> "", start |-> _to_date(matches[1]).date,
                       end |-> _to_date(matches[2]).date]
            ELSE [raised |-> "", start |-> None, end |-> None])

\* MONTHS.get(label): 0 for a label that is no month name
MONTHS(label) ==
    CASE label = "enero" -> 1
      [] label = "febrero" -> 2
      [] label = "marzo" -> 3
      [] label = "abril" -> 4
      [] label = "mayo" -> 5
      [] label = "junio" -> 6
      [] label = "julio" -> 7
      [] label = "agosto" -> 8
      [] label = "septiembre" -> 9
      [] label = "setiembre" -> 9
      [] label = "octubre" -> 10
      [] label = "noviembre" -> 11
      [] label = "diciembre" -> 12
      [] OTHER -> 0

\* the positions where "mes de (\w+)" matches: "mes", "de" and one more
\* word
MonthMatches(prompt) ==
    {i \in 1..(Len(prompt) - 2) : prompt[i] = "mes" /\ prompt[i + 1] = "de"}

\* date + timedelta(days=n)
RECURSIVE PlusDays(_, _)
PlusDays(date, n) ==
    IF date.d + n <= DaysInMonth(date.m) THEN Date(date.m, date.d + n)
    ELSE PlusDays(Date(date.m + 1, 1), n - (DaysInMonth(date.m) - date.d) - 1)

\* date - timedelta(days=n)
RECURSIVE MinusDays(_, _)
MinusDays(date, n) ==
    IF n < date.d THEN Date(date.m, date.d - n)
    ELSE MinusDays(Date(date.m - 1, DaysInMonth(date.m - 1)), n - date.d)

\* _parse_month_reference(prompt): re.search takes the first match, and
\* group(1) of a match on a date-like token is its leading digits
_parse_month_reference(prompt, today) ==
    IF MonthMatches(prompt) = {} THEN [start |-> None, end |-> None]
    ELSE With(prompt[Min(MonthMatches(prompt)) + 2],
              LAMBDA month_label :
                 IF month_label \in DateTokens \/ MONTHS(Lower(month_label)) = 0
                 THEN [start |-> None, end |-> None]
                 ELSE With(Date(Year(today.m) * 12 + MONTHS(Lower(month_label)) - 1, 1),
                           LAMBDA start :
                              [start |-> Some(start),
                               end |-> Some(MinusDays(
                                          Date(PlusDays(Date(start.m, 28), 4).m, 1),
                                          1))]))

\* _detect_group(prompt)
_detect_group(prompt) ==
    IF Contains(prompt, "producto") THEN "producto"
    ELSE IF Contains(prompt, "cliente") \/ Contains(prompt, "usuario") THEN "cliente"
    ELSE IF Contains(prompt, "categoria") THEN "categoria"
    ELSE "mes"

\* parse_prompt from the month reference on, explicit being what
\* _parse_explicit_dates returned
ParseFrom(normalized, preferred_format, today, explicit) ==
    With(IF explicit.start # None THEN explicit
         ELSE _parse_month_reference(normalized, today),
         LAMBDA found :
            [raised |-> "",
             group_by |-> _detect_group(normalized),
             report_format |-> _detect_format(normalized, preferred_format),
             start_date |-> IF found.start # None THEN found.start
                            ELSE Some(MinusDays(today, 30)),
             end_date |-> IF found.start # None THEN found.end ELSE Some(today)])

\* parse_prompt(prompt, preferred_format) on the day today: the exception
\* raised and the fields of the PromptData returned
parse_prompt(prompt, preferred_format, today) ==
    With(_parse_explicit_dates(LowerPrompt(prompt)),
         LAMBDA explicit :
            IF explicit.raised # ""
            THEN [raised |-> explicit.raised, group_by |-> "", report_format |-> "",
                  start_date |-> None, end_date |-> None]
            ELSE ParseFrom(LowerPrompt(prompt), preferred_format, today, explicit))

\* the prompts tried: up to MaxWords words
Prompts == UNION {[1..n -> PromptWords] : n \in 0..MaxWords}

\* the values tried for the "format" field of the request: missing, the
\* three formats, the empty string and a format that does not exist
FormatOverrides == {None, Some("pdf"), Some("excel"), Some("screen"), Some(""), Some("csv")}

\* the phrases of the prompts of dates: a date-like token, a grouping word,
\* "mes de" and a word
Phrases ==
    {<<token>> : token \in DateTokens} \cup {<<"producto">>}
      \cup {<<"mes", "de", w>> : w \in {"marzo", "Setiembre", "febrero", "ventas"}}

\* the phrases of ps one after the other
RECURSIVE Joined(_)
Joined(ps) == IF ps = <<>> THEN <<>> ELSE Head(ps) \o Joined(Tail(ps))

\* the prompts of dates tried: up to MaxWords phrases
DatedPrompts == {Joined(ps) : ps \in UNION {[1..n -> Phrases] : n \in 0..MaxWords}}

\* the days tried for today: 15 January 2025, and 1 March 2024, thirty
\* days after the end of January in a leap year
Todays == {Date(StartMonth, 15), Date(2024 * 12 + 2, 1)}

PromptInit ==
    /\ AmountIdle
    /\ ExtractIdle
    /\ SysIdle
    /\ ConcIdle
    /\ \/ \E prompt \in Prompts, preferred_format \in FormatOverrides :
             prm = [phase |-> "request", prompt |-> prompt,
                    preferred_format |-> preferred_format,
                    today |-> Date(StartMonth, 15)]
       \/ \E prompt \in DatedPrompts, today \in Todays :
             prm = [phase |-> "request", prompt |-> prompt,
                    preferred_format |-> None, today |-> today]

\* the report endpoint parses the prompt of the request; an exception of
\* parse_prompt is not caught by the view
ParsePrompt ==
    /\ prm.phase = "request"
    /\ \E parsed \in {parse_prompt(prm.prompt, prm.preferred_format, prm.today)} :
          prm' = [phase |-> IF parsed.raised = "" THEN "parsed" ELSE "failed",
                  prompt |-> prm.prompt,
                  preferred_format |-> prm.preferred_format,
                  today |-> prm.today,
                  raised |-> parsed.raised,
                  group_by |-> parsed.group_by,
                  report_format |-> parsed.report_format,
                  start_date |-> parsed.start_date,
                  end_date |-> parsed.end_date]
    /\ UNCHANGED <<amt, xfacturas, xorig, xitems, xlines, targetMonths, now,
                   productos, usuarios, facturaTable, modelStore, rsp, conc>>

PromptNext == ParsePrompt

SpecPrompt == PromptInit /\ [][PromptNext]_vars

\* the format the text of a prompt names, by priority pdf > excel > screen;
\* None when it names none
TextFormat(prompt) ==
    IF \E i \in 1..Len(prompt) : prompt[i] \in {"pdf", "PDF"} THEN Some("pdf")
    ELSE IF \E i \in 1..Len(prompt) : prompt[i] \in {"excel", "XLSX"} THEN Some("excel")
    ELSE IF \E i \in 1..Len(prompt) : prompt[i] = "pantalla" THEN Some("screen")
    ELSE None

\* C20: an explicit format override always wins over the text of the prompt
C20_OverrideWins ==
    (prm.phase = "parsed" /\ prm.preferred_format # None) =>
        prm.report_format = prm.preferred_format[1]

\* what the parser does: a format named in the text wins, by priority
\* pdf > excel > screen; the override is used only when the text names
\* none, and "screen" when there is no override either
C20_TextWins ==
    prm.phase = "parsed" =>
        prm.report_format =
            IF TextFormat(prm.prompt) # None THEN TextFormat(prm.prompt)[1]
            ELSE IF prm.preferred_format \in {None, Some("")} THEN "screen"
            ELSE prm.preferred_format[1]

-----------------------------------------------------------------------------
(* The synthetic generator called with arguments: ensure_synthetic_invoices *)
(* with its keyword arguments and the generate_synthetic_facturas command. *)

\* the arguments of a call of ensure_synthetic_invoices; a range is
\* <<low, high>> in cents, monthly_target_range None when not given,
\* monthly_amount_ranges a function from months of the year to ranges
EnsureArgs(months, min_invoices, max_invoices, base_amount, dry_run, monthly_target_range, monthly_amount_ranges) ==
    [months |-> months, min_invoices |-> min_invoices,
     max_invoices |-> max_invoices, base_amount |-> base_amount,
     dry_run |-> dry_run, monthly_target_range |-> monthly_target_range,
     monthly_amount_ranges |-> monthly_amount_ranges]

\* no per-month override
NoRanges == <<>>

\* the checks at the head of ensure_synthetic_invoices: "return" when it
\* returns [] at once, the exception it raises, "" when it goes on
EnsureHead(a) ==
    IF a.months <= 0 THEN "return"
    ELSE IF a.min_invoices < 1 THEN "ValueError"
    ELSE IF a.max_invoices < a.min_invoices THEN "ValueError"
    ELSE IF a.monthly_target_range # None
            /\ a.monthly_target_range[1][1] > a.monthly_target_range[1][2]
    THEN "ValueError"
    ELSE ""

\* random.uniform(low, high): one end of the range or the other
Uniform(low, high, seed, salt) == IF Draw(seed, salt, 2) = 0 THEN low ELSE high

\* the monthly target of ensure_synthetic_invoices for the month at index
PlannedMonthlyTotal(a, seed, index, month) ==
    IF MonthOfYear(month) \in DOMAIN a.monthly_amount_ranges
    THEN Uniform(a.monthly_amount_ranges[MonthOfYear(month)][1],
                 a.monthly_amount_ranges[MonthOfYear(month)][2], seed, index)
    ELSE With(IF Draw(seed, index, 2) = 0
              THEN (a.base_amount * 45) \div 100
              ELSE a.base_amount + index * ((a.base_amount * 25) \div 1000),
              LAMBDA monthly_total :
                 IF a.monthly_target_range = None THEN monthly_total
                 ELSE Max({a.monthly_target_range[1][1],
                           Min({a.monthly_target_range[1][2], monthly_total})}))

\* the sum of amount_total over the rows of store after the first n
CreatedTotal(store, n) ==
    SumSeq([i \in 1..(Len(store) - n) |-> store[n + i].amount_total])

\* the loop of ensure_synthetic_invoices over month_starts from index on,
\* with the arguments a; ctx = [store, ucur, pcur, remaining, summaries]
RECURSIVE PlannedBackfill(_, _, _, _)
PlannedBackfill(a, env, index, ctx) ==
    IF index >= Len(env.month_starts) THEN ctx
    ELSE IF MonthHasInvoice(ctx.store, env.month_starts[index + 1])
    THEN PlannedBackfill(a, env, index + 1, ctx)
    ELSE With([invoice_count |->
                   Max({env.required_min,
                        Min({env.max_invoices,
                             env.min_invoices + Draw(env.seed, index, 2)})}),
               monthly_total |->
                   PlannedMonthlyTotal(a, env.seed, index, env.month_starts[index + 1])],
              LAMBDA plan :
                 IF a.dry_run
                 THEN PlannedBackfill(a, env, index + 1,
                          [ctx EXCEPT !.summaries =
                              Append(@, [label |-> Label(env.month_starts[index + 1]),
                                         created_invoices |-> plan.invoice_count,
                                         total |-> plan.monthly_total])])
                 ELSE With(CreateInvoices(env, index, plan.invoice_count, 0,
                               [store |-> ctx.store, ucur |-> ctx.ucur,
                                pcur |-> ctx.pcur, remaining |-> plan.monthly_total]),
                           LAMBDA done :
                              PlannedBackfill(a, env, index + 1,
                                  [store |-> done.store, ucur |-> done.ucur,
                                   pcur |-> done.pcur, remaining |-> done.remaining,
                                   summaries |->
                                       Append(ctx.summaries,
                                           [label |-> Label(env.month_starts[index + 1]),
                                            created_invoices |-> plan.invoice_count,
                                            total |-> CreatedTotal(done.store,
                                                          Len(ctx.store))])])))

\* ensure_synthetic_invoices(**a) run with the random stream `seed`: the
\* exception raised ("" if none), the invoice table afterwards and the
\* summaries returned
EnsureSyntheticInvoicesWith(a, today, prodIds, userNames, store, seed) ==
    IF EnsureHead(a) = "return"
    THEN [raised |-> "", store |-> store, summaries |-> <<>>]
    ELSE IF EnsureHead(a) # ""
    THEN [raised |-> EnsureHead(a), store |-> store, summaries |-> <<>>]
    ELSE IF LoadEntitiesRaises(prodIds, userNames) # ""
    THEN [raised |-> LoadEntitiesRaises(prodIds, userNames), store |-> store,
          summaries |-> <<>>]
    ELSE With([prods |-> ProductList(prodIds), users |-> UserList(userNames),
               month_starts |-> _month_starts(a.months, today)],
              LAMBDA e :
                 With(Max({a.min_invoices,
                           CeilDiv(Len(e.users), Len(e.month_starts)),
                           CeilDiv(Len(e.prods), Len(e.month_starts)),
                           Len(CategoryIds(e.prods))}),
                      LAMBDA required_min :
                         With(PlannedBackfill(a,
                                  [seed |-> seed, prods |-> e.prods, users |-> e.users,
                                   month_starts |-> e.month_starts,
                                   category_ids |-> CategoryIds(e.prods),
                                   min_invoices |-> a.min_invoices,
                                   required_min |-> required_min,
                                   max_invoices |-> Max({a.max_invoices, required_min})],
                                  0,
                                  [store |-> store, ucur |-> 0, pcur |-> 0,
                                   remaining |-> 0, summaries |-> <<>>]),
                              LAMBDA ctx :
                                 [raised |-> "", store |-> ctx.store,
                                  summaries |-> ctx.summaries])))

\* the options of the generate_synthetic_facturas command
GenerateOptions(months, min_invoices, max_invoices, base_amount, dry_run, refresh) ==
    [months |-> months, min_invoices |-> min_invoices,
     max_invoices |-> max_invoices, base_amount |-> base_amount,
     dry_run |-> dry_run, refresh |-> refresh]

\* the checks at the head of Command.handle: the exception raised
GenerateHead(o) ==
    IF o.months <= 0 \/ o.min_invoices < 1 \/ o.max_invoices < o.min_invoices
       \/ o.base_amount <= 0
    THEN "CommandError"
    ELSE ""

\* queryset.delete() over the rows whose stripe_invoice_id starts with SYNTH
WithoutSynthetic(store) == SelectSeq(store, LAMBDA f : ~f.synthetic)

\* generate_synthetic_facturas: Command.handle from its try block on, the
\* table being `kept` once --refresh has been served
GenerateFrom(o, kept, today, prodIds, userNames, seed) ==
    With(EnsureSyntheticInvoicesWith(
             EnsureArgs(o.months, o.min_invoices, o.max_invoices, o.base_amount,
                        o.dry_run, None, NoRanges),
             today, prodIds, userNames, kept, seed),
         LAMBDA r :
            IF r.raised = "ValueError"
            THEN [raised |-> "CommandError", store |-> kept, summaries |-> <<>>]
            ELSE r)

\* a Command.handle that serves --refresh in a dry run too
GenerateHandleRefreshing(o, today, prodIds, userNames, store, seed) ==
    IF GenerateHead(o) # ""
    THEN [raised |-> GenerateHead(o), store |-> store, summaries |-> <<>>]
    ELSE GenerateFrom(o, IF o.refresh THEN WithoutSynthetic(store) ELSE store,
                      today, prodIds, userNames, seed)

\* generate_synthetic_facturas: Command.handle(**o)
GenerateCommandHandle(o, today, prodIds, userNames, store, seed) ==
    IF GenerateHead(o) # ""
    THEN [raised |-> GenerateHead(o), store |-> store, summaries |-> <<>>]
    ELSE GenerateFrom(o,
             IF o.refresh /\ ~o.dry_run THEN WithoutSynthetic(store) ELSE store,
             today, prodIds, userNames, seed)

-----------------------------------------------------------------------------
(* rebuild_invoice_dataset and the rebuild_facturas_dataset command.       *)

\* the arguments of a call of rebuild_invoice_dataset; start is the month
\* start_year, start_month name
RebuildArgs(start, target_invoice_total, monthly_target_range, monthly_amount_overrides, min_invoices_per_month, dry_run) ==
    [start |-> start, target_invoice_total |-> target_invoice_total,
     monthly_target_range |-> monthly_target_range,
     monthly_amount_overrides |-> monthly_amount_overrides,
     holiday_months |-> {12, 11, 10}, january_drop |-> 2,
     min_invoices_per_month |-> min_invoices_per_month, dry_run |-> dry_run]

\* the checks at the head of rebuild_invoice_dataset
RebuildHead(a, today) ==
    IF a.target_invoice_total <= 0 THEN "ValueError"
    ELSE IF a.monthly_target_range[1] <= 0
            \/ a.monthly_target_range[1] > a.monthly_target_range[2]
    THEN "ValueError"
    ELSE IF \E month \in DOMAIN a.monthly_amount_overrides :
               a.monthly_amount_overrides[month][1] > a.monthly_amount_overrides[month][2]
    THEN "ValueError"
    ELSE IF today.m - a.start + 1 <= 0 THEN "ValueError"
    ELSE ""

\* the `while remainder < 0` loop of _build_invoice_count_plan from idx on:
\* it never ends when no month is above min_per_month
RECURSIVE PlanShrink(_, _, _, _)
PlanShrink(plan, remainder, idx, min_per_month) ==
    IF remainder >= 0 THEN [diverges |-> FALSE, plan |-> plan, remainder |-> remainder]
    ELSE IF \A i \in 1..Len(plan) : plan[i] <= min_per_month
    THEN [diverges |-> TRUE, plan |-> plan, remainder |-> remainder]
    ELSE IF plan[idx + 1] > min_per_month
    THEN PlanShrink([plan EXCEPT ![idx + 1] = @ - 1], remainder + 1,
                    (idx + 1) % Len(plan), min_per_month)
    ELSE PlanShrink(plan, remainder, (idx + 1) % Len(plan), min_per_month)

\* the `while remainder > 0` loop from the k-th priority index on
RECURSIVE PlanGrow(_, _, _, _)
PlanGrow(plan, remainder, k, priority_indices) ==
    IF remainder <= 0 THEN plan
    ELSE PlanGrow([plan EXCEPT ![priority_indices[k + 1]] = @ + 1], remainder - 1,
                  (k + 1) % Len(priority_indices), priority_indices)

\* the indices (from 1) of the months of month_starts that are in months
IndicesIn(month_starts, months) ==
    SelectSeq([i \in 1..Len(month_starts) |-> i],
              LAMBDA i : MonthOfYear(month_starts[i]) \in months)

\* _build_invoice_count_plan: the invoices planned per month, and whether
\* the call never returns
_build_invoice_count_plan(month_starts, target_total_invoices, min_per_month, january_drop, priority_months) ==
    IF month_starts = <<>> THEN [diverges |-> FALSE, plan |-> <<>>]
    ELSE With(Max({min_per_month, target_total_invoices \div Len(month_starts)}),
              LAMBDA base :
                 With([drop |-> [i \in 1..Len(month_starts) |->
                                    IF MonthOfYear(month_starts[i]) = 1
                                       /\ Min({january_drop, base - min_per_month}) > 0
                                    THEN Min({january_drop, base - min_per_month})
                                    ELSE 0]],
                      LAMBDA jan :
                         With(PlanShrink(
                                  [i \in 1..Len(month_starts) |-> base - jan.drop[i]],
                                  target_total_invoices - base * Len(month_starts)
                                      + SumSeq(jan.drop),
                                  0, min_per_month),
                              LAMBDA shrunk :
                                 IF shrunk.diverges
                                 THEN [diverges |-> TRUE, plan |-> <<>>]
                                 ELSE [diverges |-> FALSE,
                                       plan |-> PlanGrow(shrunk.plan, shrunk.remainder, 0,
                                           IF IndicesIn(month_starts, priority_months) = <<>>
                                           THEN [i \in 1..Len(month_starts) |-> i]
                                           ELSE IndicesIn(month_starts,
                                                          priority_months))])))

\* the invoices of one month of rebuild_invoice_dataset, from invoice_number
\* on; ctx = [store, ucur, queue, ccur, remaining]: the rows written, the
\* position of user_cycle, what is left of product_queue, the position of
\* category_cycle, remaining_target
RECURSIVE RebuildInvoices(_, _, _, _, _)
RebuildInvoices(env, index, invoice_count, invoice_number, ctx) ==
    IF invoice_number >= invoice_count THEN ctx
    ELSE With([primary_product |->
                   IF ctx.queue # <<>> THEN Head(ctx.queue)
                   ELSE With(IF env.category_ids = <<>> THEN env.prods
                             ELSE ProductsOf(env.prods,
                                      env.category_ids[(ctx.ccur % Len(env.category_ids)) + 1]),
                             LAMBDA choices :
                                choices[1 + Draw(env.seed, index + invoice_number,
                                                 Len(choices))]),
               target_total |->
                   Max({MIN_ORDER_TOTAL,
                        RoundDiv(ctx.remaining, invoice_count - invoice_number)})],
              LAMBDA pick :
                 With(_build_invoice_payload(pick.primary_product, env.prods,
                          pick.target_total, env.seed, index + invoice_number),
                      LAMBDA order :
                         RebuildInvoices(env, index, invoice_count, invoice_number + 1,
                             [store |-> Append(ctx.store,
                                           SyntheticFactura(
                                               env.users[(ctx.ucur % Len(env.users)) + 1],
                                               env.month_starts[index + 1], order)),
                              ucur |-> ctx.ucur + 1,
                              queue |-> IF ctx.queue # <<>> THEN Tail(ctx.queue) ELSE <<>>,
                              ccur |-> IF ctx.queue # <<>> THEN ctx.ccur ELSE ctx.ccur + 1,
                              remaining |-> Max({0, ctx.remaining - order.total})])))

\* the monthly target rebuild_invoice_dataset draws for the month at index
RebuildMonthlyTotal(a, seed, index, month) ==
    IF MonthOfYear(month) \in DOMAIN a.monthly_amount_overrides
    THEN Uniform(a.monthly_amount_overrides[MonthOfYear(month)][1],
                 a.monthly_amount_overrides[MonthOfYear(month)][2], seed, index)
    ELSE Uniform(a.monthly_target_range[1], a.monthly_target_range[2], seed, index)

\* the loop of rebuild_invoice_dataset over month_starts from index on;
\* ctx carries the summaries too
RECURSIVE RebuildMonths(_, _, _, _)
RebuildMonths(a, env, index, ctx) ==
    IF index >= Len(env.month_starts) THEN ctx
    ELSE IF env.invoice_plan[index + 1] <= 0 THEN RebuildMonths(a, env, index + 1, ctx)
    ELSE With(RebuildMonthlyTotal(a, env.seed, index, env.month_starts[index + 1]),
              LAMBDA monthly_target :
                 IF a.dry_run
                 THEN RebuildMonths(a, env, index + 1,
                          [ctx EXCEPT !.summaries =
                              Append(@, [label |-> Label(env.month_starts[index + 1]),
                                         created_invoices |-> env.invoice_plan[index + 1],
                                         total |-> monthly_target])])
                 ELSE With(RebuildInvoices(env, index, env.invoice_plan[index + 1], 0,
                               [store |-> ctx.store, ucur |-> ctx.ucur,
                                queue |-> ctx.queue, ccur |-> ctx.ccur,
                                remaining |-> monthly_target]),
                           LAMBDA done :
                              RebuildMonths(a, env, index + 1,
                                  [store |-> done.store, ucur |-> done.ucur,
                                   queue |-> done.queue, ccur |-> done.ccur,
                                   summaries |->
                                       Append(ctx.summaries,
                                           [label |-> Label(env.month_starts[index + 1]),
                                            created_invoices |-> env.invoice_plan[index + 1],
                                            total |-> CreatedTotal(done.store,
                                                          Len(ctx.store))])])))

\* rebuild_invoice_dataset(**a) run with the random stream `seed`: the
\* exception raised ("" if none; "NoReturn" when the call never returns),
\* the invoice table afterwards and the summaries returned
rebuild_invoice_dataset(a, today, prodIds, userNames, store, seed) ==
    IF RebuildHead(a, today) # ""
    THEN [raised |-> RebuildHead(a, today), store |-> store, summaries |-> <<>>]
    ELSE IF LoadEntitiesRaises(prodIds, userNames) # ""
    THEN [raised |-> LoadEntitiesRaises(prodIds, userNames), store |-> store,
          summaries |-> <<>>]
    ELSE With([prods |-> ProductList(prodIds), users |-> UserList(userNames),
               month_starts |-> _month_starts(today.m - a.start + 1, today)],
              LAMBDA e :
                 With(_build_invoice_count_plan(e.month_starts, a.target_invoice_total,
                          a.min_invoices_per_month, a.january_drop, a.holiday_months),
                      LAMBDA planned :
                         IF planned.diverges
                         THEN [raised |-> "NoReturn", store |-> store,
                               summaries |-> <<>>]
                         ELSE With(RebuildMonths(a,
                                       [seed |-> seed, prods |-> e.prods,
                                        users |-> e.users,
                                        month_starts |-> e.month_starts,
                                        category_ids |-> CategoryIds(e.prods),
                                        invoice_plan |-> planned.plan],
                                       0,
                                       [store |-> store, ucur |-> 0,
                                        queue |-> Rotate(e.prods,
                                                     Draw(seed, 0, Len(e.prods))),
                                        ccur |-> 0, summaries |-> <<>>]),
                                   LAMBDA ctx :
                                      [raised |-> "", store |-> ctx.store,
                                       summaries |-> ctx.summaries])))

\* the constants of the rebuild_facturas_dataset command, scaled to the
\* model: the dataset starts the month before the first day, holds
\* TargetDatasetInvoices invoices, at least DatasetMinPerMonth a month
DatasetStart == StartMonth - 1
TargetDatasetInvoices == 3
DatasetMinPerMonth == 1
MONTHLY_TARGET_RANGE == <<Units(80), Units(100)>>
MONTHLY_OVERRIDE_RANGES ==
    [month \in {1, 11, 12} |->
        CASE month = 1 -> <<Units(55), Units(70)>>
          [] month = 11 -> <<Units(90), Units(110)>>
          [] OTHER -> <<Units(100), Units(130)>>]

\* rebuild_facturas_dataset: Command.handle(dry_run); the rows are deleted
\* before rebuild_invoice_dataset is called, whose exceptions pass through
RebuildCommandHandle(dry_run, today, prodIds, userNames, store, seed) ==
    rebuild_invoice_dataset(
        RebuildArgs(DatasetStart, TargetDatasetInvoices, MONTHLY_TARGET_RANGE,
                    MONTHLY_OVERRIDE_RANGES, DatasetMinPerMonth, dry_run),
        today, prodIds, userNames, IF dry_run THEN store ELSE <<>>, seed)

-----------------------------------------------------------------------------
(* The generator as a system: a deployment, and calls of the two service   *)
(* functions and of the two commands with valid and invalid arguments.     *)

\* a call is made while the table holds at most MaxRowsBefore rows
MaxRowsBefore == 2

\* an invoice the generator wrote earlier
SyntheticSample(m) ==
    [CartLineFactura(m) EXCEPT !.synthetic = TRUE, !.stock_processed = TRUE]

NoUsersCatalogue == [productos |-> {1, 2, 3}, usuarios |-> {}]

GeneratorDeployments ==
    {Deployment(FullCatalogue, <<>>),
     Deployment(FullCatalogue, <<LinesFactura(StartMonth)>>),
     Deployment(FullCatalogue, <<LinesFactura(StartMonth - 2), SyntheticSample(StartMonth)>>),
     Deployment(EmptyCatalogue, <<LinesFactura(StartMonth - 1), SyntheticSample(StartMonth)>>),
     Deployment(NoUsersCatalogue, <<>>)}

InvertedRange == <<Units(100), Units(80)>>

\* the calls of ensure_synthetic_invoices tried
EnsureCalls ==
    {EnsureArgs(c[1], c[2], c[3], BaseAmount, dry_run, c[4], c[5]) :
        c \in {<<2, 1, 2, None, NoRanges>>,
               <<0, 1, 2, None, NoRanges>>,
               <<0 - 1, 0, 2, None, NoRanges>>,
               <<2, 0, 2, None, NoRanges>>,
               <<2, 2, 1, None, NoRanges>>,
               <<2, 1, 2, Some(InvertedRange), NoRanges>>,
               <<2, 1, 2, Some(MONTHLY_TARGET_RANGE), NoRanges>>,
               <<2, 1, 2, None, <<InvertedRange>>>>,
               <<2, 1, 2, None, <<MONTHLY_TARGET_RANGE>>>>},
        dry_run \in BOOLEAN}

\* the command lines of generate_synthetic_facturas tried
GenerateCalls ==
    {GenerateOptions(c[1], c[2], c[3], c[4], dry_run, refresh) :
        c \in {<<2, 1, 2, BaseAmount>>,
               <<0, 1, 2, BaseAmount>>,
               <<2, 0, 2, BaseAmount>>,
               <<2, 2, 1, BaseAmount>>,
               <<2, 1, 2, 0>>},
        dry_run \in BOOLEAN, refresh \in BOOLEAN}

\* the calls of rebuild_invoice_dataset tried
RebuildCalls ==
    {RebuildArgs(c[1], c[2], c[3], c[4], c[5], dry_run) :
        c \in {<<DatasetStart, 3, MONTHLY_TARGET_RANGE, NoRanges, 1>>,
               <<DatasetStart, 0, MONTHLY_TARGET_RANGE, NoRanges, 1>>,
               <<DatasetStart, 3, InvertedRange, NoRanges, 1>>,
               <<DatasetStart, 3, <<0, Units(100)>>, NoRanges, 1>>,
               <<DatasetStart, 3, MONTHLY_TARGET_RANGE, <<InvertedRange>>, 1>>,
               <<StartMonth + 1, 3, MONTHLY_TARGET_RANGE, NoRanges, 1>>,
               <<DatasetStart, 3, MONTHLY_TARGET_RANGE, NoRanges, 0>>,
               <<DatasetStart, 3, MONTHLY_TARGET_RANGE, NoRanges, 2>>},
        dry_run \in BOOLEAN}

GeneratorInit ==
    /\ AmountIdle
    /\ ExtractIdle
    /\ AuxIdle
    /\ targetMonths = 0
    /\ now = Date(StartMonth, 15)
    /\ \E d \in GeneratorDeployments :
          /\ productos = d.catalogue.productos
          /\ usuarios = d.catalogue.usuarios
          /\ facturaTable = d.history
    /\ modelStore = NoModel
    /\ rsp = [op |-> "none"]

\* what a generator call leaves behind: the table, and in rsp the call, its
\* outcome and whether the table changed
Generated(op, args, r) ==
    /\ facturaTable' = r.store
    /\ rsp' = [op |-> op, args |-> args, raised |-> r.raised,
               summaries |-> r.summaries, changed |-> r.store # facturaTable,
               rows_before |-> Len(facturaTable)]
    /\ UNCHANGED <<amt, xfacturas, xorig, xitems, xlines, targetMonths, now,
                   productos, usuarios, modelStore>>
    /\ UNCHANGED auxVars

\* ensure_synthetic_invoices(**a)
EnsureCall ==
    /\ Len(facturaTable) <= MaxRowsBefore
    /\ \E a \in EnsureCalls, seed \in {0, MaxSeed} :
          \E r \in {EnsureSyntheticInvoicesWith(a, now, productos, usuarios,
                                                facturaTable, seed)} :
             Generated("ensure", a, r)

\* manage.py generate_synthetic_facturas
GenerateCommand ==
    /\ Len(facturaTable) <= MaxRowsBefore
    /\ \E o \in GenerateCalls, seed \in {0, MaxSeed} :
          \E r \in {GenerateCommandHandle(o, now, productos, usuarios,
                                          facturaTable, seed)} :
             Generated("generate", o, r)

\* rebuild_invoice_dataset(**a)
RebuildCall ==
    /\ Len(facturaTable) <= MaxRowsBefore
    /\ \E a \in RebuildCalls, seed \in {0, MaxSeed} :
          \E r \in {rebuild_invoice_dataset(a, now, productos, usuarios,
                                            facturaTable, seed)} :
             Generated("rebuild", a, r)

\* manage.py rebuild_facturas_dataset
RebuildCommand ==
    /\ Len(facturaTable) <= MaxRowsBefore
    /\ \E dry_run \in BOOLEAN, seed \in {0, MaxSeed} :
          \E r \in {RebuildCommandHandle(dry_run, now, productos, usuarios,
                                         facturaTable, seed)} :
             Generated("rebuild_command", [dry_run |-> dry_run], r)

GeneratorNext == EnsureCall \/ GenerateCommand \/ RebuildCall \/ RebuildCommand

SpecGenerator == GeneratorInit /\ [][GeneratorNext]_vars

\* called with the defaults of its keyword arguments, the generator with
\* arguments is the backfill of the forecasting engine
EnsureDefaultsAgree ==
    \A seed \in {0, MaxSeed} :
        With(EnsureSyntheticInvoicesWith(
                 EnsureArgs(targetMonths, MinInvoices, MaxInvoices, BaseAmount, FALSE,
                            None, NoRanges),
                 now, productos, usuarios, facturaTable, seed),
             LAMBDA r :
                With(ensure_synthetic_invoices(targetMonths, now, productos, usuarios,
                                               facturaTable, seed),
                     LAMBDA e : r.raised = e.raised /\ r.store = e.store))

-----------------------------------------------------------------------------
(* Claims on the generator.  rsp holds the last call: its arguments, the   *)
(* exception raised, the summaries returned and whether the table changed. *)

GeneratorOps == {"ensure", "generate", "rebuild", "rebuild_command"}

\* the entity tables allow no generation
NoEntities == productos = {} \/ usuarios = {}

\* the last call got past the checks of its arguments
PastArgumentChecks ==
    CASE rsp.op = "ensure" -> EnsureHead(rsp.args) = ""
      [] rsp.op = "generate" -> GenerateHead(rsp.args) = ""
      [] rsp.op = "rebuild" -> RebuildHead(rsp.args, now) = ""
      [] OTHER -> TRUE

\* C16: generation requested without products or without users is rejected
\* with an error and the invoice table is left as it was
C16_RejectedWithoutChange ==
    (rsp.op \in GeneratorOps /\ NoEntities /\ PastArgumentChecks) =>
        /\ rsp.raised \in {"ValueError", "CommandError"}
        /\ ~rsp.changed

\* the two service functions do reject without touching the table, and so
\* do the commands in a dry run; every request is rejected
C16_ServiceRejects ==
    (rsp.op \in GeneratorOps /\ NoEntities /\ PastArgumentChecks) =>
        /\ rsp.raised \in {"ValueError", "CommandError"}
        /\ (rsp.op \in {"ensure", "rebuild"} \/ rsp.args.dry_run) => ~rsp.changed

\* a range <<low, high>> with high below low
Inverted(range) == range[1] > range[2]

\* an argument of an ensure_synthetic_invoices call is outside its domain
InvalidEnsure(a) ==
    \/ a.months <= 0
    \/ a.min_invoices < 1
    \/ a.max_invoices < a.min_invoices
    \/ a.monthly_target_range # None /\ Inverted(a.monthly_target_range[1])
    \/ \E month \in DOMAIN a.monthly_amount_ranges :
          Inverted(a.monthly_amount_ranges[month])

\* an argument of a rebuild_invoice_dataset call is outside its domain
InvalidRebuild(a) ==
    \/ a.target_invoice_total <= 0
    \/ Inverted(a.monthly_target_range)
    \/ \E month \in DOMAIN a.monthly_amount_overrides :
          Inverted(a.monthly_amount_overrides[month])
    \/ now.m - a.start + 1 <= 0

\* C17: a call with an argument outside its domain is rejected with an
\* error and the invoice table is left as it was
C17_InvalidRejected ==
    (\/ rsp.op = "ensure" /\ InvalidEnsure(rsp.args)
     \/ rsp.op = "rebuild" /\ InvalidRebuild(rsp.args)) =>
        /\ rsp.raised = "ValueError"
        /\ ~rsp.changed

\* what the code checks: rebuild_invoice_dataset and the generate command
\* reject every such argument; ensure_synthetic_invoices returns [] without
\* an error for months <= 0 and rejects min_invoices < 1, max_invoices <
\* min_invoices and an inverted monthly_target_range; all leave the table
C17_CheckedArgumentsRejected ==
    /\ (rsp.op = "rebuild" /\ InvalidRebuild(rsp.args)) =>
           (rsp.raised = "ValueError" /\ ~rsp.changed)
    /\ (rsp.op = "generate" /\ GenerateHead(rsp.args) # "") =>
           (rsp.raised = "CommandError" /\ ~rsp.changed)
    /\ (rsp.op = "ensure" /\ rsp.args.months <= 0) =>
           (rsp.raised = "" /\ rsp.summaries = <<>> /\ ~rsp.changed)
    /\ (rsp.op = "ensure" /\ rsp.args.months > 0
           /\ (\/ rsp.args.min_invoices < 1
               \/ rsp.args.max_invoices < rsp.args.min_invoices
               \/ rsp.args.monthly_target_range # None
                  /\ Inverted(rsp.args.monthly_target_range[1]))) =>
           (rsp.raised = "ValueError" /\ ~rsp.changed)

\* the last call was a dry run
DryRun == rsp.op \in GeneratorOps /\ rsp.args.dry_run

\* the months of the window of months ending today that hold no invoice
MissingMonths(months) ==
    SelectSeq(_month_starts(months, now),
              LAMBDA m : ~MonthHasInvoice(facturaTable, m))

\* C18: a dry run leaves the invoice table as it was, with --refresh too,
\* and a dry run that returns gives the plan: for ensure_synthetic_invoices
\* and the generate command one entry per month of the window without an
\* invoice, in order, each of at least min_invoices invoices; for
\* rebuild_invoice_dataset and its command entries for months from the
\* start month on that add up to the invoice target
C18_DryRunLeavesStore ==
    DryRun =>
        /\ ~rsp.changed
        /\ Len(facturaTable) = rsp.rows_before
        /\ (rsp.op \in {"ensure", "generate"} /\ rsp.raised = "") =>
              /\ [i \in 1..Len(rsp.summaries) |-> rsp.summaries[i].label]
                    = [i \in 1..Len(MissingMonths(rsp.args.months)) |->
                          Label(MissingMonths(rsp.args.months)[i])]
              /\ \A i \in 1..Len(rsp.summaries) :
                    rsp.summaries[i].created_invoices >= rsp.args.min_invoices
        /\ (rsp.op \in {"rebuild", "rebuild_command"} /\ rsp.raised = "") =>
              /\ SumSeq([i \in 1..Len(rsp.summaries) |->
                             rsp.summaries[i].created_invoices])
                    = (IF rsp.op = "rebuild" THEN rsp.args.target_invoice_total
                       ELSE TargetDatasetInvoices)
              /\ \A i \in 1..Len(rsp.summaries) :
                    ParseLabel(rsp.summaries[i].label) <= now.m

\* a dry run of the generate command with --refresh over a table that
\* holds synthetic invoices, returning a plan
C18_Witness ==
    /\ DryRun
    /\ rsp.op = "generate"
    /\ rsp.args.refresh
    /\ rsp.raised = ""
    /\ rsp.summaries # <<>>
    /\ \E i \in 1..Len(facturaTable) : facturaTable[i].synthetic

\* a dry run of rebuild_invoice_dataset returning a plan
C18_RebuildPlanned ==
    DryRun /\ rsp.op = "rebuild" /\ rsp.raised = "" /\ rsp.summaries # <<>>

\* the same calls outside a dry run change the table
C18_RealRunChanges ==
    /\ rsp.op \in GeneratorOps
    /\ ~rsp.args.dry_run
    /\ rsp.raised = ""
    /\ rsp.changed

-----------------------------------------------------------------------------
(* The backfill statement by statement, beside a reader of the invoice     *)
(* table.  conc holds the position of the backfill: the rows it is to      *)
(* create (plan; with one backfill running they are the rows of            *)
(* ensure_synthetic_invoices), how many of them it has created, the rows   *)
(* of the open transaction (tx) and the month that transaction is for.     *)
(* facturaTable is the committed table.                                    *)

\* the rows another connection would see if every statement were committed
\* at once
VisibleAutocommit(committed, tx) == committed \o tx

\* the rows another connection sees while a transaction.atomic() block
\* holds tx: the database is PostgreSQL, which shows committed rows only
Visible(committed, tx) == committed

BackfillInit ==
    /\ AmountIdle
    /\ ExtractIdle
    /\ PromptIdle
    /\ targetMonths \in {1, MaxTargetMonths}
    /\ now = Date(StartMonth, 15)
    /\ \E d \in Deployments :
          /\ productos = d.catalogue.productos
          /\ usuarios = d.catalogue.usuarios
          /\ facturaTable = d.history
          /\ conc = [phase |-> "backfill", pc |-> "call", raised |-> "",
                     before |-> Len(d.history), plan |-> <<>>, created |-> 0,
                     month |-> 0, tx |-> <<>>, unstamped |-> FALSE]
    /\ modelStore = NoModel
    /\ rsp = [op |-> "none"]

\* what the steps of the backfill leave alone
BackfillFrame ==
    UNCHANGED <<amt, xfacturas, xorig, xitems, xlines, targetMonths, now,
                productos, usuarios, modelStore, prm>>

\* ensure_synthetic_invoices is called: its checks and _load_entities
BackfillStart ==
    /\ conc.phase = "backfill"
    /\ conc.pc = "call"
    /\ \E seed \in Seeds :
         \E r \in {ensure_synthetic_invoices(targetMonths, now, productos, usuarios,
                                             facturaTable, seed)} :
            conc' = IF r.raised # ""
                    THEN [conc EXCEPT !.pc = "done", !.raised = r.raised]
                    ELSE [conc EXCEPT !.pc = "months",
                                      !.plan = SubSeq(r.store, Len(facturaTable) + 1,
                                                      Len(r.store))]
    /\ UNCHANGED <<facturaTable, rsp>>
    /\ BackfillFrame

\* with transaction.atomic(): entered for the next month without invoices
BeginMonth ==
    /\ conc.phase = "backfill"
    /\ conc.pc = "months"
    /\ conc.created < Len(conc.plan)
    /\ conc' = [conc EXCEPT !.pc = "tx", !.tx = <<>>,
                            !.month = conc.plan[conc.created + 1].month]
    /\ UNCHANGED <<facturaTable, rsp>>
    /\ BackfillFrame

\* Factura.objects.create(...): created_at is set to the current time
CreateFactura ==
    /\ conc.phase = "backfill"
    /\ conc.pc = "tx"
    /\ ~conc.unstamped
    /\ conc.created < Len(conc.plan)
    /\ conc.plan[conc.created + 1].month = conc.month
    /\ conc' = [conc EXCEPT !.tx = Append(@, [conc.plan[conc.created + 1]
                                                 EXCEPT !.month = now.m]),
                            !.unstamped = TRUE]
    /\ UNCHANGED <<facturaTable, rsp>>
    /\ BackfillFrame

\* Factura.objects.filter(pk=factura.pk).update(created_at=created_at)
UpdateCreatedAt ==
    /\ conc.phase = "backfill"
    /\ conc.pc = "tx"
    /\ conc.unstamped
    /\ conc' = [conc EXCEPT !.tx[Len(conc.tx)].month = conc.month,
                            !.unstamped = FALSE,
                            !.created = @ + 1]
    /\ UNCHANGED <<facturaTable, rsp>>
    /\ BackfillFrame

\* the transaction.atomic() block of the month ends: commit
CommitMonth ==
    /\ conc.phase = "backfill"
    /\ conc.pc = "tx"
    /\ ~conc.unstamped
    /\ IF conc.created = Len(conc.plan) THEN TRUE
       ELSE conc.plan[conc.created + 1].month # conc.month
    /\ facturaTable' = facturaTable \o conc.tx
    /\ conc' = [conc EXCEPT !.pc = "months", !.tx = <<>>]
    /\ UNCHANGED rsp
    /\ BackfillFrame

\* return summaries
BackfillReturn ==
    /\ conc.phase = "backfill"
    /\ conc.pc = "months"
    /\ conc.created = Len(conc.plan)
    /\ conc' = [conc EXCEPT !.pc = "done"]
    /\ UNCHANGED <<facturaTable, rsp>>
    /\ BackfillFrame

\* another connection runs the query of the Monthly Aggregator
\* (_monthly_sales_dataframe)
ReadMonthlySales ==
    /\ conc.phase = "backfill"
    /\ rsp' = [op |-> "read",
               rows |-> Visible(facturaTable, conc.tx),
               totals |-> _monthly_sales_dataframe(Visible(facturaTable, conc.tx)),
               uncommitted |-> Len(conc.tx)]
    /\ UNCHANGED <<facturaTable, conc>>
    /\ BackfillFrame

BackfillNext ==
    \/ BackfillStart
    \/ BeginMonth
    \/ CreateFactura
    \/ UpdateCreatedAt
    \/ CommitMonth
    \/ BackfillReturn
    \/ ReadMonthlySales

SpecBackfill == BackfillInit /\ [][BackfillNext]_vars

\* the rows of a view of the table that the backfill created
NewRows(rows) == SubSeq(rows, conc.before + 1, Len(rows))

\* new holds the invoices of the plan up to the end of some month, each as
\* planned and so with its creation time inside its month
WholeMonths(new) ==
    \E k \in 0..Len(conc.plan) :
       /\ new = SubSeq(conc.plan, 1, k)
       /\ \/ k = 0
          \/ k = Len(conc.plan)
          \/ conc.plan[k].month # conc.plan[k + 1].month

\* C13: at every moment of a backfill, what a reader of the Monthly
\* Aggregator sees holds for each backfilled month none or all of its
\* generated invoices, each with its in-month creation time; and so did
\* what the last reader read
C13_MonthsWholeOrAbsent ==
    conc.phase = "backfill" =>
        /\ WholeMonths(NewRows(Visible(facturaTable, conc.tx)))
        /\ rsp.op = "read" =>
              /\ WholeMonths(NewRows(rsp.rows))
              /\ \A i \in 1..Len(NewRows(rsp.rows)) :
                    /\ NewRows(rsp.rows)[i].synthetic
                    /\ NewRows(rsp.rows)[i].month \in
                          {_month_starts(targetMonths, now)[j] : j \in 1..targetMonths}

\* a reader read while the transaction of a month held some of the month's
\* invoices and others were still to be created
C13_Witness ==
    /\ conc.phase = "backfill"
    /\ conc.pc = "tx"
    /\ rsp.op = "read"
    /\ rsp.uncommitted > 0
    /\ rsp.uncommitted = Len(conc.tx)
    /\ conc.created < Len(conc.plan)
    /\ conc.plan[conc.created + 1].month = conc.month
    /\ conc.month # now.m

\* the backfill has returned with every planned invoice committed
C13_AllCommitted ==
    /\ conc.phase = "backfill"
    /\ conc.pc = "done"
    /\ conc.plan # <<>>
    /\ NewRows(facturaTable) = conc.plan

-----------------------------------------------------------------------------
(* train_model and get_predictions statement by statement over the model   *)
(* file.  modelStore.model is what MODEL_PATH holds once every byte of the *)
(* last dump is there, modelStore.metadata the metadata file.  conc holds  *)
(* the state of the bytes of MODEL_PATH (written: "all" of them, "part"    *)
(* of them while a dump is under way, "mixed" after two dumps overlapped), *)
(* the requests that have the file open for writing, and for each request  *)
(* its position and local variables.                                       *)

\* the requests: POST train and GET predictions
Requests == {"train", "predict"}

\* the local variables of a request at position pc
Local(pc) ==
    [pc |-> pc, model |-> None, rows |-> <<>>, metadata |-> None,
     raised |-> "", loaded |-> ""]

\* what joblib.load raises on a file that does not end where it should
TruncatedLoad == "EOFError"

\* {} from _load_metadata: a metadata without trained_at
EmptyMetadata == Some([trained_at |-> None, snapshot |-> <<>>])

ModelFileInit ==
    /\ AmountIdle
    /\ ExtractIdle
    /\ PromptIdle
    /\ targetMonths \in {1, MaxTargetMonths}
    /\ now = Date(StartMonth, 15)
    /\ \E d \in Deployments, trained \in BOOLEAN :
          /\ productos = d.catalogue.productos
          /\ usuarios = d.catalogue.usuarios
          /\ \E r \in {train_model(targetMonths, now, d.catalogue.productos,
                                    d.catalogue.usuarios, d.history, 0)} :
                IF trained /\ r.raised = ""
                THEN /\ facturaTable = r.store
                     /\ modelStore = [model |-> r.model, metadata |-> r.metadata]
                ELSE /\ facturaTable = d.history
                     /\ modelStore = NoModel
    /\ conc = [phase |-> "file", written |-> "all", writers |-> {},
               clash |-> FALSE,
               proc |-> [p \in Requests |->
                           Local(IF p = "train" THEN "train" ELSE "start")]]
    /\ rsp = [op |-> "none"]

\* what the steps over the model file leave alone
ModelFileFrame ==
    UNCHANGED <<amt, xfacturas, xorig, xitems, xlines, targetMonths, now,
                productos, usuarios, prm>>

\* train_model: _aggregate_monthly_sales() and model.fit
TrainAggregate ==
    \E p \in Requests :
      /\ conc.phase = "file"
      /\ conc.proc[p].pc = "train"
      /\ \E seed \in Seeds :
           \E agg \in {_aggregate_monthly_sales(targetMonths, now, productos,
                                                usuarios, facturaTable, seed)} :
             IF agg.raised # ""
             THEN /\ conc' = [conc EXCEPT !.proc[p].pc = "done",
                                          !.proc[p].raised = agg.raised]
                  /\ rsp' = [op |-> p, raised |-> agg.raised, loaded |-> ""]
                  /\ UNCHANGED facturaTable
             ELSE /\ conc' = [conc EXCEPT !.proc[p].pc = "dump",
                                          !.proc[p].rows = agg.rows,
                                          !.proc[p].model = Some(Fit(agg.rows))]
                  /\ facturaTable' = agg.store
                  /\ UNCHANGED rsp
      /\ UNCHANGED modelStore
      /\ ModelFileFrame

\* joblib.dump(model, MODEL_PATH) opens MODEL_PATH for writing: the file
\* exists from here on and what it held is gone
DumpOpen ==
    \E p \in Requests :
      /\ conc.phase = "file"
      /\ conc.proc[p].pc = "dump"
      /\ modelStore' = [modelStore EXCEPT !.model = conc.proc[p].model]
      /\ conc' = [conc EXCEPT !.proc[p].pc = "writing",
                              !.written = "part",
                              !.clash = conc.clash \/ conc.writers # {},
                              !.writers = conc.writers \cup {p}]
      /\ UNCHANGED <<facturaTable, rsp>>
      /\ ModelFileFrame

\* joblib.dump has written its last byte and closes the file; when another
\* dump wrote to the file meanwhile, the bytes left are those of this
\* model or a mix of the two
DumpClose ==
    \E p \in Requests :
      /\ conc.phase = "file"
      /\ conc.proc[p].pc = "writing"
      /\ \E left \in (IF conc.writers # {p} THEN {"part"}
                       ELSE IF conc.clash THEN {"all", "mixed"}
                       ELSE {"all"}) :
            conc' = [conc EXCEPT !.proc[p].pc = "meta",
                                 !.written = left,
                                 !.clash = conc.clash /\ conc.writers # {p},
                                 !.writers = conc.writers \ {p}]
      /\ modelStore' = IF conc.writers = {p}
                       THEN [modelStore EXCEPT !.model = conc.proc[p].model]
                       ELSE modelStore
      /\ UNCHANGED <<facturaTable, rsp>>
      /\ ModelFileFrame

\* _save_metadata(metadata); POST train answers, _load_or_train_model goes
\* on to joblib.load with the metadata train_model returned
SaveMetadata ==
    \E p \in Requests :
      /\ conc.phase = "file"
      /\ conc.proc[p].pc = "meta"
      /\ \E metadata \in {Some([trained_at |-> now,
                                  snapshot |-> _build_metadata_snapshot(
                                      conc.proc[p].rows, facturaTable, productos)])} :
            /\ modelStore' = [modelStore EXCEPT !.metadata = metadata]
            /\ conc' = [conc EXCEPT !.proc[p].metadata = metadata,
                                    !.proc[p].pc = IF p = "train" THEN "done"
                                                   ELSE "load"]
      /\ rsp' = IF p = "train" THEN [op |-> p, raised |-> "", loaded |-> ""]
                ELSE rsp
      /\ UNCHANGED facturaTable
      /\ ModelFileFrame

\* _load_or_train_model: metadata = _load_metadata()
LoadMetadata ==
    /\ conc.phase = "file"
    /\ conc.proc["predict"].pc = "start"
    /\ conc' = [conc EXCEPT !.proc["predict"].pc = "exists",
                            !.proc["predict"].metadata = modelStore.metadata]
    /\ UNCHANGED <<facturaTable, modelStore, rsp>>
    /\ ModelFileFrame

\* if not MODEL_PATH.exists(): metadata = train_model()
CheckExists ==
    /\ conc.phase = "file"
    /\ conc.proc["predict"].pc = "exists"
    /\ conc' = [conc EXCEPT !.proc["predict"].pc =
                                IF modelStore.model = None THEN "train" ELSE "load"]
    /\ UNCHANGED <<facturaTable, modelStore, rsp>>
    /\ ModelFileFrame

\* model = joblib.load(MODEL_PATH): reads the bytes that are there
LoadModel ==
    /\ conc.phase = "file"
    /\ conc.proc["predict"].pc = "load"
    /\ IF conc.written = "all"
       THEN /\ conc' = [conc EXCEPT !.proc["predict"].pc = "aggregate",
                                    !.proc["predict"].loaded = "all",
                                    !.proc["predict"].model = modelStore.model]
            /\ UNCHANGED rsp
       ELSE /\ conc' = [conc EXCEPT !.proc["predict"].pc = "done",
                                    !.proc["predict"].loaded = conc.written,
                                    !.proc["predict"].raised = TruncatedLoad]
            /\ rsp' = [op |-> "predict", raised |-> TruncatedLoad,
                       loaded |-> conc.written]
    /\ UNCHANGED <<facturaTable, modelStore>>
    /\ ModelFileFrame

\* the rest of get_predictions(1) with the model loaded
PredictLoaded ==
    /\ conc.phase = "file"
    /\ conc.proc["predict"].pc = "aggregate"
    /\ \E seed \in Seeds :
         \E inputs \in {PredictionInputs(targetMonths, now, productos, usuarios,
                         facturaTable,
                         [model |-> conc.proc["predict"].model,
                          metadata |-> IF conc.proc["predict"].metadata = None
                                       THEN EmptyMetadata
                                       ELSE conc.proc["predict"].metadata],
                         seed)} :
           \E r \in {PredictionsFrom(1, now, productos, inputs)} :
             /\ facturaTable' = r.store
             /\ rsp' = [op |-> "predict", raised |-> r.raised, loaded |-> "all",
                        predictions |-> r.predictions, metadata |-> r.metadata]
             /\ conc' = [conc EXCEPT !.proc["predict"].pc = "done",
                                     !.proc["predict"].raised = r.raised]
    /\ UNCHANGED modelStore
    /\ ModelFileFrame

ModelFileNext ==
    \/ TrainAggregate
    \/ DumpOpen
    \/ DumpClose
    \/ SaveMetadata
    \/ LoadMetadata
    \/ CheckExists
    \/ LoadModel
    \/ PredictLoaded

SpecModelFile == ModelFileInit /\ [][ModelFileNext]_vars

\* C12: whatever the interleaving of a train with a predict, predict never
\* loads a model file of which only a part is written
C12_NoPartialLoad ==
    conc.phase = "file" => conc.proc["predict"].loaded \in {"", "all"}

\* a load of a file that is not whole ends the request with an error; a
\* predict that answers has loaded a whole model
C12_PartialLoadRaises ==
    conc.phase = "file" =>
        /\ conc.proc["predict"].loaded \notin {"", "all"} =>
              /\ conc.proc["predict"].pc = "done"
              /\ conc.proc["predict"].raised = TruncatedLoad
        /\ (rsp.op = "predict" /\ rsp.raised = "") => rsp.loaded = "all"

\* predict loaded the model file while train had written part of it
C12_LoadedDuringDump ==
    /\ conc.phase = "file"
    /\ conc.proc["predict"].loaded = "part"
    /\ conc.proc["train"].pc = "writing"

\* train and predict both ran to their answers, predict with a whole model
C12_BothAnswered ==
    /\ conc.phase = "file"
    /\ conc.proc["train"].pc = "done"
    /\ conc.proc["train"].raised = ""
    /\ conc.proc["predict"].pc = "done"
    /\ conc.proc["predict"].raised = ""

-----------------------------------------------------------------------------
(* Claims on the dates of the Prompt Parser.                               *)

\* C21: parse_prompt never raises, whatever the text
C21_NeverRaises == prm.phase # "failed"

\* a date-like token names a day of the calendar
ValidToken(raw) == _to_date(raw).raised = ""

\* parse_prompt raises exactly when one of the first two date-like tokens
\* of a text that holds two names no day of the calendar, and then it is
\* ValueError; otherwise it returns a group, a format and two dates
C21_RaisesOnInvalidDates ==
    prm.phase \in {"parsed", "failed"} =>
        /\ prm.phase = "failed" <=>
              /\ Len(DateMatches(prm.prompt)) >= 2
              /\ \/ ~ValidToken(DateMatches(prm.prompt)[1])
                 \/ ~ValidToken(DateMatches(prm.prompt)[2])
        /\ prm.phase = "failed" => prm.raised = "ValueError"
        /\ prm.phase = "parsed" =>
              /\ prm.group_by \in {"producto", "cliente", "categoria", "mes"}
              /\ prm.report_format # ""
              /\ prm.start_date # None
              /\ prm.end_date # None

\* the months named by the "mes de <month-name>" phrases of a text, in the
\* order of the text
NamedMonths(prompt) ==
    [k \in 1..Cardinality({i \in MonthMatches(prompt) : MONTHS(Lower(prompt[i + 2])) # 0}) |->
        MONTHS(Lower(prompt[NthSmallest(
            {i \in MonthMatches(prompt) : MONTHS(Lower(prompt[i + 2])) # 0}, k) + 2]))]

\* the first and the last day of month number n of the year of today
MonthRange(n, today) ==
    [start |-> Date(Year(today.m) * 12 + n - 1, 1),
     end |-> Date(Year(today.m) * 12 + n - 1, DaysInMonth(Year(today.m) * 12 + n - 1))]

\* the text holds fewer than two date-like tokens
NoExplicitRange == Len(DateMatches(prm.prompt)) < 2

\* C22: the range is that of the first two date-like tokens when the text
\* holds two (2-digit years as 20yy); otherwise that of a recognised
\* "mes de <month-name>" phrase, in the year of today; otherwise the 30
\* days ending today
C22_ResolutionOrder ==
    /\ (prm.phase = "parsed" /\ ~NoExplicitRange) =>
          /\ prm.start_date = _to_date(DateMatches(prm.prompt)[1]).date
          /\ prm.end_date = _to_date(DateMatches(prm.prompt)[2]).date
    /\ (prm.phase = "parsed" /\ NoExplicitRange /\ NamedMonths(prm.prompt) # <<>>) =>
          /\ prm.start_date = Some(MonthRange(NamedMonths(prm.prompt)[1], prm.today).start)
          /\ prm.end_date = Some(MonthRange(NamedMonths(prm.prompt)[1], prm.today).end)
    /\ (prm.phase = "parsed" /\ NoExplicitRange /\ NamedMonths(prm.prompt) = <<>>) =>
          /\ prm.end_date = Some(prm.today)
          /\ prm.start_date = Some(MinusDays(prm.today, 30))

\* the word after the first "mes de" of the text is a month name
FirstPhraseNamesMonth ==
    /\ MonthMatches(prm.prompt) # {}
    /\ MONTHS(Lower(prm.prompt[Min(MonthMatches(prm.prompt)) + 2])) # 0

\* what the parser does: only the first "mes de <word>" of the text is
\* looked at, and a text whose first such phrase names no month gets the
\* 30 days ending today even when a later phrase names one
C22_FirstPhraseOnly ==
    /\ (prm.phase = "parsed" /\ ~NoExplicitRange) =>
          /\ prm.start_date = _to_date(DateMatches(prm.prompt)[1]).date
          /\ prm.end_date = _to_date(DateMatches(prm.prompt)[2]).date
    /\ (prm.phase = "parsed" /\ NoExplicitRange /\ FirstPhraseNamesMonth) =>
          /\ prm.start_date = Some(MonthRange(NamedMonths(prm.prompt)[1], prm.today).start)
          /\ prm.end_date = Some(MonthRange(NamedMonths(prm.prompt)[1], prm.today).end)
    /\ (prm.phase = "parsed" /\ NoExplicitRange /\ ~FirstPhraseNamesMonth) =>
          /\ prm.end_date = Some(prm.today)
          /\ prm.start_date = Some(MinusDays(prm.today, 30))

-----------------------------------------------------------------------------
(* C28: the two amount normalisers beside each other.                      *)

\* C28: once both normalisers have returned for a value, they have returned
\* the same amount
C28_NormalisersAgree ==
    (amt.convert.done /\ amt.normalize.done) =>
        amt.convert.cents = amt.normalize.cents

\* the two agree on every value that is not a numeric string above 1000,
\* and on such a string _convert_amount divides by 100 while
\* _normalize_amount does not
C28_AgreeButOnLargeStrings ==
    (amt.convert.done /\ amt.normalize.done) =>
        IF amt.value.t = "numstr" /\ amt.value.v > MinorUnitThreshold
        THEN /\ amt.convert.cents = amt.value.v
             /\ amt.normalize.cents = Units(amt.value.v)
        ELSE amt.convert.cents = amt.normalize.cents

-----------------------------------------------------------------------------
(* The Report Builder (analitica/services/report_builder.py).  An invoice  *)
(* of a report carries its id, its customer (None when it has none) and    *)
(* the day it was created; labels are texts, amounts are in cents.         *)

\* most invoices in the table a report is built from
MaxReportInvoices == 5

ReportFactura(id, usuario, created_at, amount_total, lines) ==
    [id |-> id, usuario |-> usuario, created_at |-> created_at,
     amount_total |-> amount_total, items |-> NoItems, lines |-> lines]

\* strftime("%Y-%m") of the months the sample invoices lie in
MonthText(m) ==
    CASE m = StartMonth - 1 -> "2024-12"
      [] m = StartMonth -> "2025-01"
      [] m = StartMonth + 1 -> "2025-02"

\* _parse_label_to_date(label): datetime.strptime(label, "%Y-%m"), None
\* for a label that is no month
_parse_label_to_date(label) ==
    CASE label = "2024-12" -> Some(Date(StartMonth - 1, 1))
      [] label = "2025-01" -> Some(Date(StartMonth, 1))
      [] label = "2025-02" -> Some(Date(StartMonth + 1, 1))
      [] OTHER -> None

\* datetime.max
DatetimeMax == Date(9999 * 12 + 11, 31)

\* a < b for two days
DateLess(a, b) == a.m < b.m \/ (a.m = b.m /\ a.d < b.d)

\* list.sort(key=...): s in the order of Before, elements that Before does
\* not tell apart in the order they had
SortedBy(s, Before(_, _)) ==
    [p \in 1..Len(s) |->
        s[CHOOSE i \in 1..Len(s) :
            Cardinality({j \in 1..Len(s) :
                            \/ Before(s[j], s[i])
                            \/ (~Before(s[i], s[j]) /\ j < i)}) = p - 1]]

\* Factura.objects.all().order_by("created_at") with the two date filters
ReportQueryset(store, start_date, end_date) ==
    SortedBy(SelectSeq(store,
                 LAMBDA f : /\ (start_date # None => ~DateLess(f.created_at, start_date[1]))
                            /\ (end_date # None => ~DateLess(end_date[1], f.created_at))),
             LAMBDA f, g : DateLess(f.created_at, g.created_at))

\* factura.usuario.username if factura.usuario else "Sin cliente"
Cliente(factura) == IF factura.usuario = None THEN "Sin cliente" ELSE factura.usuario[1]

\* _group_key(group_by, factura, line): the label
_group_key(group_by, factura, line) ==
    CASE group_by = "producto" -> line.producto
      [] group_by = "cliente" -> Cliente(factura)
      [] group_by = "categoria" -> line.categoria
      [] OTHER -> MonthText(factura.created_at.m)

\* the (factura, line) pairs the two loops of build_report go through
RECURSIVE ReportPairs(_)
ReportPairs(queryset) ==
    IF queryset = <<>> THEN <<>>
    ELSE [i \in 1..Len(_expand_invoice_lines(Head(queryset)).lines) |->
             [factura |-> Head(queryset),
              line |-> _expand_invoice_lines(Head(queryset)).lines[i]]]
         \o ReportPairs(Tail(queryset))

\* the first exception _expand_invoice_lines raises over the queryset
ReportRaises(queryset) ==
    FirstRaise([i \in 1..Len(queryset) |-> _expand_invoice_lines(queryset[i]).raised], 1)

\* the defaultdict's fresh entry
FreshEntry ==
    [label |-> "", monto_total |-> 0, cantidad |-> 0, first_date |-> None,
     last_date |-> None, invoice_ids |-> {}]

\* a loop body that overwrites the total of the entry instead of adding
AccumulateOverwriting(entry, key, factura, line) ==
    [label |-> key,
     monto_total |-> line.total,
     cantidad |-> entry.cantidad + line.cantidad,
     first_date |-> IF entry.first_date = None
                       \/ DateLess(factura.created_at, entry.first_date[1])
                    THEN Some(factura.created_at) ELSE entry.first_date,
     last_date |-> IF entry.last_date = None
                      \/ DateLess(entry.last_date[1], factura.created_at)
                   THEN Some(factura.created_at) ELSE entry.last_date,
     invoice_ids |-> entry.invoice_ids \cup {factura.id}]

\* the loop body of build_report on the summary entry of the key
Accumulate(entry, key, factura, line) ==
    [label |-> key,
     monto_total |-> entry.monto_total + line.total,
     cantidad |-> entry.cantidad + line.cantidad,
     first_date |-> IF entry.first_date = None
                       \/ DateLess(factura.created_at, entry.first_date[1])
                    THEN Some(factura.created_at) ELSE entry.first_date,
     last_date |-> IF entry.last_date = None
                      \/ DateLess(entry.last_date[1], factura.created_at)
                   THEN Some(factura.created_at) ELSE entry.last_date,
     invoice_ids |-> entry.invoice_ids \cup {factura.id}]

\* the summary dict after the pairs from the i-th on, as the sequence of
\* its values in insertion order
RECURSIVE Summarise(_, _, _, _)
Summarise(group_by, pairs, i, summary) ==
    IF i > Len(pairs) THEN summary
    ELSE With(_group_key(group_by, pairs[i].factura, pairs[i].line),
              LAMBDA key :
                 Summarise(group_by, pairs, i + 1,
                     IF \E e \in 1..Len(summary) : summary[e].label = key
                     THEN [e \in 1..Len(summary) |->
                              IF summary[e].label = key
                              THEN Accumulate(summary[e], key, pairs[i].factura,
                                              pairs[i].line)
                              ELSE summary[e]]
                     ELSE Append(summary,
                              Accumulate(FreshEntry, key, pairs[i].factura,
                                         pairs[i].line))))

\* the row appended for a pair
ReportRow(pair) ==
    [factura |-> pair.factura.id,
     cliente |-> Cliente(pair.factura),
     producto |-> pair.line.producto,
     categoria |-> pair.line.categoria,
     cantidad |-> pair.line.cantidad,
     monto_total |-> pair.line.total,
     fecha |-> pair.factura.created_at]

\* the record of a summary entry
SummaryRecord(entry, include_invoice_counts, include_date_span) ==
    [label |-> entry.label,
     monto_total |-> entry.monto_total,
     cantidad |-> entry.cantidad,
     compras |-> IF include_invoice_counts
                 THEN Some(Cardinality(entry.invoice_ids)) ELSE None,
     fecha_primera |-> IF include_date_span THEN entry.first_date ELSE None,
     fecha_ultima |-> IF include_date_span THEN entry.last_date ELSE None]

\* a sort key that sends every label that is no month to the end
SummaryKeyLabelOnly(item) ==
    <<IF _parse_label_to_date(item.label) # None
      THEN _parse_label_to_date(item.label)[1]
      ELSE DatetimeMax,
      IF item.fecha_primera # None THEN item.fecha_primera[1] ELSE DatetimeMax>>

\* the sort key of the chronological order of the summary
SummaryKey(item) ==
    <<IF _parse_label_to_date(item.label) # None
      THEN _parse_label_to_date(item.label)[1]
      ELSE IF item.fecha_primera # None THEN item.fecha_primera[1]
      ELSE DatetimeMax,
      IF item.fecha_primera # None THEN item.fecha_primera[1] ELSE DatetimeMax>>

\* a < b for two sort keys
KeyLess(a, b) == DateLess(a[1], b[1]) \/ (a[1] = b[1] /\ DateLess(a[2], b[2]))

\* build_report(group_by, start_date, end_date, ...) over the invoice
\* table: the exception raised, rows, summary and the keys of
\* summary_fields
build_report(group_by, start_date, end_date, include_invoice_counts, include_date_span, order_by_date, store) ==
    With(ReportQueryset(store, start_date, end_date),
         LAMBDA queryset :
            IF ReportRaises(queryset) # ""
            THEN [raised |-> ReportRaises(queryset), rows |-> <<>>, summary |-> <<>>,
                  summary_fields |-> <<>>]
            ELSE With(List(ReportPairs(queryset)),
                      LAMBDA pairs :
                         With(List([e \in 1..Len(Summarise(group_by, pairs, 1, <<>>)) |->
                                       SummaryRecord(Summarise(group_by, pairs, 1, <<>>)[e],
                                                     include_invoice_counts,
                                                     include_date_span)]),
                              LAMBDA summary_list :
                                 [raised |-> "",
                                  rows |-> SortedBy([i \in 1..Len(pairs) |->
                                                        ReportRow(pairs[i])],
                                                    LAMBDA r, q : DateLess(r.fecha, q.fecha)),
                                  summary |->
                                      IF order_by_date /\ summary_list # <<>>
                                      THEN SortedBy(summary_list,
                                               LAMBDA a, b : KeyLess(SummaryKey(a),
                                                                     SummaryKey(b)))
                                      ELSE SortedBy(summary_list,
                                               LAMBDA a, b : a.monto_total > b.monto_total),
                                  summary_fields |->
                                      <<"label", "monto_total", "cantidad">>
                                        \o (IF include_invoice_counts THEN <<"compras">>
                                            ELSE <<>>)
                                        \o (IF include_date_span
                                            THEN <<"fecha_primera", "fecha_ultima">>
                                            ELSE <<>>)])))

\* the invoices reports are tried on: one without lines, one of two lines
\* whose second product is named like a month, one more of the same month,
\* one of the month after, and one with a line whose quantity is null
ReportSamples ==
    <<ReportFactura(1, Some("ana"), Date(StartMonth - 1, 20), Units(50), NoLines),
      ReportFactura(2, None, Date(StartMonth, 10), Units(30),
          LineList(<<RawLine(IntVal(1500), Absent, IntVal(1200), IntVal(2), "Mouse",
                             "Perifericos"),
                     RawLine(Absent, Absent, IntVal(150), Absent, "2025-01", "")>>)),
      ReportFactura(3, Some("luis"), Date(StartMonth, 5), Units(70),
          LineList(<<RawLine(NumStr(70), Absent, Absent, NumStr(3), "Teclado",
                             "Perifericos")>>)),
      ReportFactura(4, Some("ana"), Date(StartMonth + 1, 2), Units(20),
          LineList(<<RawLine(IntVal(2000), Absent, Absent, IntVal(1), "Mouse",
                             "Perifericos")>>)),
      ReportFactura(5, Some("luis"), Date(StartMonth + 1, 3), Units(10),
          LineList(<<RawLine(IntVal(0), Absent, IntVal(1000), Null, "Cable", "")>>))>>

\* the tables tried: the sample invoices of a set of ids, in the order of
\* their ids
ReportStores ==
    {SelectSeq(ReportSamples, LAMBDA f : f.id \in ids) :
        ids \in SUBSET (1..Min({MaxReportInvoices, Len(ReportSamples)}))}

ReportInit ==
    /\ AmountIdle
    /\ ExtractIdle
    /\ AuxIdle
    /\ targetMonths = 0
    /\ now = Date(StartMonth + 1, 15)
    /\ productos = {}
    /\ usuarios = {}
    /\ facturaTable \in ReportStores
    /\ modelStore = NoModel
    /\ rsp = [op |-> "none"]

\* the one report of a behaviour is asked for: build_report with its
\* arguments
BuildReport ==
    /\ rsp.op = "none"
    /\ \E group_by \in {"mes", "producto", "cliente", "categoria"},
          start_date \in {None, Some(Date(StartMonth, 5))},
          end_date \in {None, Some(Date(StartMonth, 10))},
          include_invoice_counts \in BOOLEAN, include_date_span \in BOOLEAN,
          order_by_date \in BOOLEAN :
         \E r \in {build_report(group_by, start_date, end_date, include_invoice_counts,
                                include_date_span, order_by_date, facturaTable)} :
            rsp' = [op |-> "report", group_by |-> group_by, start_date |-> start_date,
                    end_date |-> end_date,
                    include_invoice_counts |-> include_invoice_counts,
                    include_date_span |-> include_date_span,
                    order_by_date |-> order_by_date,
                    raised |-> r.raised, rows |-> r.rows, summary |-> r.summary,
                    summary_fields |-> r.summary_fields]
    /\ UNCHANGED <<amt, xfacturas, xorig, xitems, xlines, targetMonths, now,
                   productos, usuarios, facturaTable, modelStore>>
    /\ UNCHANGED auxVars

ReportNext == BuildReport

SpecReport == ReportInit /\ [][ReportNext]_vars

-----------------------------------------------------------------------------
(* Claims on the Report Builder.                                           *)

\* the expanded lines of every invoice of the table
AllExpandedLines ==
    [i \in 1..Len(ReportPairs(facturaTable)) |-> ReportPairs(facturaTable)[i].line]

\* a report by month over the whole table has been built
MonthlyReportBuilt ==
    /\ rsp.op = "report"
    /\ rsp.raised = ""
    /\ rsp.group_by = "mes"
    /\ rsp.start_date = None
    /\ rsp.end_date = None

\* C23: in a report by month without date filter the monto_total of the
\* summary entries add up to the normalised amounts of all expanded
\* invoice lines, and every expanded line is counted in exactly one
\* summary entry: there is one row per line, one entry per month with a
\* row, and each entry holds the amounts and the units of the rows of its
\* month
C23_SummaryAddsUp ==
    MonthlyReportBuilt =>
        /\ SumSeq([e \in 1..Len(rsp.summary) |-> rsp.summary[e].monto_total])
              = SumSeq([i \in 1..Len(AllExpandedLines) |-> AllExpandedLines[i].total])
        /\ Len(rsp.rows) = Len(AllExpandedLines)
        /\ \A i \in 1..Len(rsp.rows) :
              Cardinality({e \in 1..Len(rsp.summary) :
                              rsp.summary[e].label = MonthText(rsp.rows[i].fecha.m)}) = 1
        /\ \A e \in 1..Len(rsp.summary) :
              /\ rsp.summary[e].monto_total
                    = SumSeq([i \in 1..Len(rsp.rows) |->
                                 IF MonthText(rsp.rows[i].fecha.m) = rsp.summary[e].label
                                 THEN rsp.rows[i].monto_total ELSE 0])
              /\ rsp.summary[e].cantidad
                    = SumSeq([i \in 1..Len(rsp.rows) |->
                                 IF MonthText(rsp.rows[i].fecha.m) = rsp.summary[e].label
                                 THEN rsp.rows[i].cantidad ELSE 0])

\* a report by month over an invoice without lines, one of two lines and
\* one more of the same month
C23_Witness ==
    /\ MonthlyReportBuilt
    /\ Len(rsp.summary) >= 2
    /\ Len(rsp.rows) >= 4
    /\ \E i \in 1..Len(rsp.rows) : rsp.rows[i].producto = "Venta general"
    /\ \E e \in 1..Len(rsp.summary) :
          Cardinality({i \in 1..Len(rsp.rows) :
                          MonthText(rsp.rows[i].fecha.m) = rsp.summary[e].label}) >= 3

\* the rows of a report are in ascending order of date
RowsAscending ==
    \A i \in 1..(Len(rsp.rows) - 1) : ~DateLess(rsp.rows[i + 1].fecha, rsp.rows[i].fecha)

\* the summary of a report is in descending order of total amount
SummaryByAmount ==
    \A e \in 1..(Len(rsp.summary) - 1) :
       rsp.summary[e].monto_total >= rsp.summary[e + 1].monto_total

\* the label of a summary entry is a month
IsMonthLabel(item) == item.label \in {"2024-12", "2025-01", "2025-02"}

\* the month a month label names
LabelMonth(item) ==
    CASE item.label = "2024-12" -> StartMonth - 1
      [] item.label = "2025-01" -> StartMonth
      [] item.label = "2025-02" -> StartMonth + 1

\* C24 as the specification has it: rows ascending by date; the summary,
\* in chronological order, by the month of the label with every entry
\* whose label is no month after all entries whose label is one, and
\* otherwise by total amount descending
C24_UnparseableLast ==
    (rsp.op = "report" /\ rsp.raised = "") =>
        /\ RowsAscending
        /\ ~rsp.order_by_date => SummaryByAmount
        /\ rsp.order_by_date =>
              \A e \in 1..Len(rsp.summary), f \in 1..Len(rsp.summary) :
                 e < f =>
                    /\ ~(~IsMonthLabel(rsp.summary[e]) /\ IsMonthLabel(rsp.summary[f]))
                    /\ (IsMonthLabel(rsp.summary[e]) /\ IsMonthLabel(rsp.summary[f])) =>
                          LabelMonth(rsp.summary[e]) <= LabelMonth(rsp.summary[f])

\* the day an entry is ordered by in chronological order: the first day of
\* the month its label names; for a label that is no month the day of its
\* first transaction when the report carries the date span, and the end of
\* time when it does not
OrderingDay(item) ==
    IF IsMonthLabel(item) THEN Date(LabelMonth(item), 1)
    ELSE IF rsp.include_date_span THEN item.fecha_primera[1]
    ELSE DatetimeMax

\* C24 amended: rows ascending by date; the summary, in chronological
\* order, ascending by ordering day, entries of the same ordering day by
\* the day of their first transaction when the report carries the date
\* span; otherwise by total amount descending
C24_SortedByOrderingDay ==
    (rsp.op = "report" /\ rsp.raised = "") =>
        /\ RowsAscending
        /\ ~rsp.order_by_date => SummaryByAmount
        /\ rsp.order_by_date =>
              \A e \in 1..(Len(rsp.summary) - 1) :
                 /\ ~DateLess(OrderingDay(rsp.summary[e + 1]), OrderingDay(rsp.summary[e]))
                 /\ (rsp.include_date_span
                       /\ OrderingDay(rsp.summary[e + 1]) = OrderingDay(rsp.summary[e])) =>
                       ~DateLess(rsp.summary[e + 1].fecha_primera[1],
                                 rsp.summary[e].fecha_primera[1])

\* a chronological report with the date span in which an entry whose label
\* is no month stands before an entry whose label is one
C24_Witness ==
    /\ rsp.op = "report"
    /\ rsp.raised = ""
    /\ rsp.order_by_date
    /\ rsp.include_date_span
    /\ Len(rsp.rows) >= 3
    /\ \E e \in 1..Len(rsp.summary), f \in 1..Len(rsp.summary) :
          /\ e < f
          /\ ~IsMonthLabel(rsp.summary[e])
          /\ IsMonthLabel(rsp.summary[f])

\* a chronological report without the date span in which labels that are
\* months stand before labels that are none
C24_MonthsFirst ==
    /\ rsp.op = "report"
    /\ rsp.raised = ""
    /\ rsp.order_by_date
    /\ ~rsp.include_date_span
    /\ \E e \in 1..Len(rsp.summary), f \in 1..Len(rsp.summary) :
          /\ e < f
          /\ IsMonthLabel(rsp.summary[e])
          /\ ~IsMonthLabel(rsp.summary[f])

-----------------------------------------------------------------------------
(* ensure_synthetic_invoices called again and again on the same day.  conc *)
(* counts the calls and keeps the table as it was before the last call and *)
(* what the call before the last one returned.                             *)

\* the calls made one after the other
MaxCalls == 2

RepeatInit ==
    /\ AmountIdle
    /\ ExtractIdle
    /\ PromptIdle
    /\ targetMonths = 0
    /\ now = Date(StartMonth, 15)
    /\ \E d \in GeneratorDeployments :
          /\ productos = d.catalogue.productos
          /\ usuarios = d.catalogue.usuarios
          /\ facturaTable = d.history
    /\ modelStore = NoModel
    /\ rsp = [op |-> "none"]
    /\ conc = [phase |-> "repeat", calls |-> 0, before |-> <<>>,
               prev |-> [op |-> "none"]]

\* ensure_synthetic_invoices(**a), once more
EnsureAgain ==
    /\ conc.phase = "repeat"
    /\ conc.calls < MaxCalls
    /\ \E a \in EnsureCalls, seed \in {0, MaxSeed} :
          \E r \in {EnsureSyntheticInvoicesWith(a, now, productos, usuarios,
                                                facturaTable, seed)} :
             /\ facturaTable' = r.store
             /\ rsp' = [op |-> "ensure", args |-> a, raised |-> r.raised,
                        summaries |-> r.summaries,
                        changed |-> r.store # facturaTable,
                        rows_before |-> Len(facturaTable)]
             /\ conc' = [conc EXCEPT !.calls = @ + 1, !.before = facturaTable,
                                     !.prev = rsp]
    /\ UNCHANGED <<amt, xfacturas, xorig, xitems, xlines, targetMonths, now,
                   productos, usuarios, modelStore, prm>>

RepeatNext == EnsureAgain

SpecRepeat == RepeatInit /\ [][RepeatNext]_vars

\* the call before the last one returned normally after a real run over
\* at least the months of the last call
AfterSuccessfulCall ==
    /\ conc.calls >= 2
    /\ conc.prev.raised = ""
    /\ EnsureHead(conc.prev.args) = ""
    /\ ~conc.prev.args.dry_run
    /\ rsp.args.months <= conc.prev.args.months

\* C27: a call of ensure_synthetic_invoices leaves every row that was in
\* the table where and as it was, and every row it adds lies in a month
\* that held no invoice before the call; a call that returns after a
\* successful real run adds nothing and returns no summary
C27_OnlyEmptyMonthsFilled ==
    (conc.phase = "repeat" /\ conc.calls > 0) =>
        /\ Len(facturaTable) >= Len(conc.before)
        /\ SubSeq(facturaTable, 1, Len(conc.before)) = conc.before
        /\ \A i \in (Len(conc.before) + 1)..Len(facturaTable) :
              \A j \in 1..Len(conc.before) :
                 conc.before[j].month # facturaTable[i].month
        /\ (AfterSuccessfulCall /\ rsp.raised = "") =>
              /\ facturaTable = conc.before
              /\ rsp.summaries = <<>>

\* a real run filled a month next to months that held invoices, and the
\* same call made again returned an empty summary
C27_Witness ==
    /\ conc.phase = "repeat"
    /\ AfterSuccessfulCall
    /\ conc.prev.changed
    /\ conc.prev.rows_before > 0
    /\ rsp.args = conc.prev.args
    /\ rsp.raised = ""
    /\ rsp.summaries = <<>>
    /\ Len(facturaTable) > conc.prev.rows_before

\* a call has added invoices to a table that held some
C27_FilledBesideExisting ==
    /\ conc.phase = "repeat"
    /\ conc.calls = 1
    /\ conc.before # <<>>
    /\ Len(facturaTable) > Len(conc.before)

-----------------------------------------------------------------------------
(* The totals of get_historical_breakdown.                                 *)

\* what the loop of get_historical_breakdown adds, line by line, over the
\* invoices of the table
BreakdownEntries(store, prodIds) ==
    With(_collect_factura_data(store).factura_items,
         LAMBDA fis :
            Flatten(List([i \in 1..Len(fis) |-> InvoiceEntries(fis[i], prodIds)])))

\* the sum of the totals of a summary
TotalOf(summary) == SumSeq([i \in 1..Len(summary) |-> summary[i].total])

\* GET history has answered with a product summary short of its limit of
\* 20 entries: the summary holds every product total
HistoryUntruncated ==
    /\ rsp.op = "history"
    /\ rsp.raised = ""
    /\ Len(rsp.by_product) < 20

\* C29: the per-product totals of get_historical_breakdown, all of them,
\* add up to what the per-category totals add up to, which is the sum of
\* the amounts of the accumulated lines
C29_ProductsMatchCategories ==
    HistoryUntruncated =>
        /\ TotalOf(rsp.by_product) = TotalOf(rsp.by_category)
        /\ With(BreakdownEntries(facturaTable, productos),
                LAMBDA entries :
                   TotalOf(rsp.by_product) =
                       SumSeq([i \in 1..Len(entries) |-> entries[i].amount]))

\* a history in which a category holds several products and there are
\* several categories
C29_Witness ==
    /\ HistoryUntruncated
    /\ Len(rsp.by_category) >= 2
    /\ Len(rsp.by_product) > Len(rsp.by_category)
    /\ TotalOf(rsp.by_category) > 0
    /\ Len(BreakdownEntries(facturaTable, productos)) > Len(rsp.by_product)

-----------------------------------------------------------------------------
(* The Stripe webhook (pagos.views.StripeWebhookView).  Each delivery is a *)
(* request of its own; the database is PostgreSQL in autocommit, so every  *)
(* statement of _store_invoice is a step and the steps of two deliveries   *)
(* interleave.  facturaTable holds the Factura rows the webhook wrote;     *)
(* conc holds Producto.stock, the users with a pending Carrito, and for    *)
(* each delivery its position and local variables.                         *)

\* the deliveries that arrive
MaxDeliveries == 2
Deliveries == 1..MaxDeliveries

\* an item of metadata["items"]
MetaItem(product_id, quantity) == [product_id |-> product_id, quantity |-> quantity]

\* a Stripe invoice object: id "" when it has none, usuario_id "" and items
\* <<>> when the metadata lacks them
StripeInvoice(id, status, amount_paid, amount_due, usuario_id, items) ==
    [id |-> id, status |-> status, amount_paid |-> amount_paid,
     amount_due |-> amount_due, usuario_id |-> usuario_id, items |-> items]

\* an event: its type, the invoice it carries or that
\* stripe.Invoice.retrieve returns for session["invoice"], and the id of
\* the session ("" for an invoice event)
StripeEvent(type, session_id, invoice) ==
    [type |-> type, session_id |-> session_id, invoice |-> invoice]

CartOfAna == <<MetaItem(1, 2), MetaItem(2, 2)>>
\* an item without product, one without quantity, one of a product that
\* is gone, and one that can be served
CartOfLuis == <<MetaItem(0, 1), MetaItem(2, 0), MetaItem(9, 1), MetaItem(2, 1)>>

\* the events Stripe sends for two purchases, and events that are ignored
WebhookEvents ==
    <<StripeEvent("invoice.finalized", "",
          StripeInvoice("in_1", "open", 0, 28000, "ana", CartOfAna)),
      StripeEvent("invoice.payment_succeeded", "",
          StripeInvoice("in_1", "paid", 28000, 28000, "ana", CartOfAna)),
      StripeEvent("checkout.session.completed", "cs_1",
          StripeInvoice("in_1", "paid", 28000, 28000, "ana", CartOfAna)),
      StripeEvent("invoice.payment_succeeded", "",
          StripeInvoice("in_2", "paid", 12000, 12000, "luis", CartOfLuis)),
      StripeEvent("invoice.payment_succeeded", "",
          StripeInvoice("in_3", "paid", 500, 500, "", <<>>)),
      StripeEvent("checkout.session.completed", "cs_4",
          StripeInvoice("", "", 0, 0, "", <<>>)),
      StripeEvent("customer.created", "",
          StripeInvoice("cus_1", "", 0, 0, "", <<>>))>>

\* whether post() calls _store_invoice for the event: the type is handled,
\* the session names an invoice that can be retrieved, the invoice has an id
Stored(event) ==
    /\ event.type \in {"checkout.session.completed", "invoice.payment_succeeded",
                       "invoice.finalized"}
    /\ event.invoice.id # ""

\* amount_raw = amount_paid or amount_due or 0, in cents
AmountRaw(invoice) ==
    IF invoice.amount_paid # 0 THEN invoice.amount_paid ELSE invoice.amount_due

\* the defaults of update_or_create with the key
WebhookDefaults(event, userNames) ==
    [stripe_invoice_id |-> event.invoice.id,
     usuario |-> IF event.invoice.usuario_id \in userNames
                 THEN event.invoice.usuario_id ELSE "",
     stripe_session_id |-> IF event.session_id # "" THEN event.session_id
                           ELSE event.invoice.id,
     amount_total |-> AmountRaw(event.invoice),
     status |-> event.invoice.status,
     data |-> event.invoice]

\* the position in the table of the row with the key, 0 if there is none
RowOf(table, stripe_invoice_id) ==
    IF \E i \in 1..Len(table) : table[i].stripe_invoice_id = stripe_invoice_id
    THEN CHOOSE i \in 1..Len(table) : table[i].stripe_invoice_id = stripe_invoice_id
    ELSE 0

\* a new row: the defaults and stock_processed at its default
NewFactura(defaults) ==
    [stripe_invoice_id |-> defaults.stripe_invoice_id, usuario |-> defaults.usuario,
     stripe_session_id |-> defaults.stripe_session_id,
     amount_total |-> defaults.amount_total, status |-> defaults.status,
     data |-> defaults.data, stock_processed |-> FALSE]

\* Factura.objects.update_or_create(stripe_invoice_id=..., defaults=...):
\* the table afterwards; the row with the key takes the defaults and keeps
\* its stock_processed, a missing row is created
update_or_create(table, defaults) ==
    IF RowOf(table, defaults.stripe_invoice_id) = 0
    THEN Append(table, NewFactura(defaults))
    ELSE [table EXCEPT ![RowOf(table, defaults.stripe_invoice_id)] =
             [NewFactura(defaults) EXCEPT !.stock_processed = @ \/
                 table[RowOf(table, defaults.stripe_invoice_id)].stock_processed]]

\* Greatest(a, b)
Greatest(a, b) == IF a >= b THEN a ELSE b

\* stock = F('stock') - quantity
StockLess(stock, quantity) == stock - quantity

\* stock = Greatest(F('stock') - quantity, 0)
StockGreatest(stock, quantity) == Greatest(stock - quantity, 0)

\* a delivery that has not arrived
NoDelivery ==
    [pc |-> "idle", event |-> 0, stock_processed |-> FALSE, index |-> 0,
     applied |-> FALSE]

WebhookInit ==
    /\ AmountIdle
    /\ ExtractIdle
    /\ PromptIdle
    /\ targetMonths = 0
    /\ now = Date(StartMonth, 15)
    /\ productos = FullCatalogue.productos
    /\ usuarios = FullCatalogue.usuarios
    /\ facturaTable = <<>>
    /\ modelStore = NoModel
    /\ rsp = [op |-> "none"]
    /\ conc = [phase |-> "webhook",
               stock |-> [id \in FullCatalogue.productos |-> Catalogo[id].stock],
               carritos |-> {"ana"},
               deliveries |-> [d \in Deliveries |-> NoDelivery]]

WebhookFrame ==
    UNCHANGED <<amt, xfacturas, xorig, xitems, xlines, targetMonths, now,
                productos, usuarios, modelStore, rsp, prm>>

\* post(): an event arrives; an event that is not stored is answered at
\* once, for the others _store_invoice runs up to update_or_create, and
\* factura is the row as the call returns it
PostEvent(d) ==
    /\ conc.phase = "webhook"
    /\ conc.deliveries[d].pc = "idle"
    /\ \E e \in 1..Len(WebhookEvents) :
          IF ~Stored(WebhookEvents[e])
          THEN /\ conc' = [conc EXCEPT !.deliveries[d].pc = "done",
                                       !.deliveries[d].event = e]
               /\ UNCHANGED facturaTable
          ELSE \E table \in {update_or_create(facturaTable,
                                 WebhookDefaults(WebhookEvents[e], usuarios))} :
                 \E factura \in {table[RowOf(table, WebhookEvents[e].invoice.id)]} :
                  /\ facturaTable' = table
                  /\ conc' = [conc EXCEPT
                        !.deliveries[d] =
                            [pc |-> IF WebhookEvents[e].invoice.items # <<>>
                                       /\ ~factura.stock_processed
                                    THEN "stock" ELSE "carrito",
                             event |-> e,
                             stock_processed |-> factura.stock_processed,
                             index |-> 1, applied |-> FALSE]]
    /\ WebhookFrame

\* the cart items of the delivery's invoice
DeliveredItems(d) == WebhookEvents[conc.deliveries[d].event].invoice.items

\* one turn of the loop over cart_items: an item without product or
\* quantity is passed over, else
\* Producto.objects.filter(pk=product_id).update(stock=Greatest(...))
UpdateStock(d) ==
    /\ conc.phase = "webhook"
    /\ conc.deliveries[d].pc = "stock"
    /\ conc.deliveries[d].index <= Len(DeliveredItems(d))
    /\ \E item \in {DeliveredItems(d)[conc.deliveries[d].index]} :
          conc' = IF item.product_id = 0 \/ item.quantity <= 0
                  THEN [conc EXCEPT !.deliveries[d].index = @ + 1]
                  ELSE IF item.product_id \notin productos
                  THEN [conc EXCEPT !.deliveries[d].index = @ + 1,
                                    !.deliveries[d].applied = TRUE]
                  ELSE [conc EXCEPT !.deliveries[d].index = @ + 1,
                                    !.deliveries[d].applied = TRUE,
                                    !.stock[item.product_id] =
                                        StockGreatest(@, item.quantity)]
    /\ UNCHANGED facturaTable
    /\ WebhookFrame

\* factura.stock_processed = True; factura.save(update_fields=[...])
SaveStockProcessed(d) ==
    /\ conc.phase = "webhook"
    /\ conc.deliveries[d].pc = "stock"
    /\ conc.deliveries[d].index > Len(DeliveredItems(d))
    /\ facturaTable' =
          [facturaTable EXCEPT
              ![RowOf(facturaTable, WebhookEvents[conc.deliveries[d].event].invoice.id)]
                  .stock_processed = TRUE]
    /\ conc' = [conc EXCEPT !.deliveries[d].pc = "carrito",
                            !.deliveries[d].stock_processed = TRUE]
    /\ WebhookFrame

\* Carrito.objects.filter(usuario=usuario, estado='pendiente').delete()
\* when the user was found, and the response
DeleteCarrito(d) ==
    /\ conc.phase = "webhook"
    /\ conc.deliveries[d].pc = "carrito"
    /\ conc' = [conc EXCEPT
                   !.deliveries[d].pc = "done",
                   !.carritos = @ \ {WebhookDefaults(
                                        WebhookEvents[conc.deliveries[d].event],
                                        usuarios).usuario}]
    /\ UNCHANGED facturaTable
    /\ WebhookFrame

WebhookNext ==
    \E d \in Deliveries :
       \/ PostEvent(d)
       \/ UpdateStock(d)
       \/ SaveStockProcessed(d)
       \/ DeleteCarrito(d)

SpecWebhook == WebhookInit /\ [][WebhookNext]_vars

\* the ids of the invoices the events are about
InvoiceIds ==
    {WebhookEvents[e].invoice.id :
        e \in {e \in 1..Len(WebhookEvents) : Stored(WebhookEvents[e])}}

\* the deliveries about the invoice that are past update_or_create
StoredDeliveries(id) ==
    {d \in Deliveries :
        /\ conc.deliveries[d].pc # "idle"
        /\ Stored(WebhookEvents[conc.deliveries[d].event])
        /\ WebhookEvents[conc.deliveries[d].event].invoice.id = id}

\* the rows of the invoice
RowsOf(id) == {i \in 1..Len(facturaTable) : facturaTable[i].stripe_invoice_id = id}

\* an invoice has one row once a delivery about it was stored, none before
OneRecordPerInvoice ==
    \A id \in InvoiceIds :
       Cardinality(RowsOf(id)) = IF StoredDeliveries(id) # {} THEN 1 ELSE 0

\* at most one delivery about an invoice has updated the stock
DecrementedAtMostOnce ==
    \A id \in InvoiceIds :
       Cardinality({d \in StoredDeliveries(id) : conc.deliveries[d].applied}) <= 1

\* a step leaves every row as it was but for stock_processed going from
\* false to true
OnlyStockProcessedSwitches ==
    /\ Len(facturaTable') >= Len(facturaTable)
    /\ \A i \in 1..Len(facturaTable) :
          \/ facturaTable'[i] = facturaTable[i]
          \/ /\ ~facturaTable[i].stock_processed
             /\ facturaTable'[i] = [facturaTable[i] EXCEPT !.stock_processed = TRUE]

\* C25: over the deliveries of the webhook an invoice id has exactly one
\* row, the stock of its cart items is decremented by at most one delivery,
\* and a row changes after its creation only by stock_processed going from
\* false to true
C25_OneRecordOneDecrement ==
    /\ [](conc.phase = "webhook" => (OneRecordPerInvoice /\ DecrementedAtMostOnce))
    /\ [][conc.phase = "webhook" => OnlyStockProcessedSwitches]_vars

\* the part of C25 about the rows: one row per invoice id at every moment
C25_OneRecordPerInvoice == conc.phase = "webhook" => OneRecordPerInvoice

\* two deliveries about one invoice have both taken the stock of its items
C25_DecrementedTwice ==
    /\ conc.phase = "webhook"
    /\ \A d \in Deliveries :
          /\ conc.deliveries[d].pc = "done"
          /\ conc.deliveries[d].applied
          /\ WebhookEvents[conc.deliveries[d].event].invoice.id = "in_1"
    /\ conc.stock[1] = Catalogo[1].stock - 4

\* a later event has rewritten the row the first event created
C25_RecordRewritten ==
    /\ conc.phase = "webhook"
    /\ conc.deliveries[1].pc = "done"
    /\ conc.deliveries[1].event = 1
    /\ conc.deliveries[2].event = 3
    /\ ~conc.deliveries[2].applied
    /\ Len(facturaTable) = 1
    /\ facturaTable[1].status = "paid"
    /\ facturaTable[1].stripe_session_id = "cs_1"

\* C30: whatever events the webhook has handled, in whatever order their
\* steps ran, no product has a negative stock
C30_StockNeverNegative ==
    conc.phase = "webhook" => \A id \in DOMAIN conc.stock : conc.stock[id] >= 0

\* a delivery has taken two units of a product that had one left and the
\* product stands at zero
C30_Witness ==
    /\ conc.phase = "webhook"
    /\ Catalogo[2].stock < CartOfAna[2].quantity
    /\ conc.stock[2] = 0
    /\ \E d \in Deliveries :
          /\ conc.deliveries[d].applied
          /\ DeliveredItems(d) = CartOfAna
          /\ conc.deliveries[d].index > 2

-----------------------------------------------------------------------------
(* Two requests run ensure_synthetic_invoices at once (two predict or      *)
(* train requests).  Each run goes over the months of the window: it asks  *)
(* whether the month has an invoice, seeing committed rows only, creates   *)
(* the month's invoices inside a transaction, and commits.  conc holds,    *)
(* for each run, its position, its random stream, the cursors of its       *)
(* cycles and the rows of its open transaction, and for every row added    *)
(* to the table the run that added it.                                     *)

Runs == {1, 2}

\* what a run of ensure_synthetic_invoices(months) with the default
\* arguments fixes before its loop
RunEnv(months, today, prodIds, userNames, seed) ==
    With([prods |-> ProductList(prodIds), users |-> UserList(userNames),
          month_starts |-> _month_starts(months, today)],
         LAMBDA e :
            With(Max({MinInvoices,
                      CeilDiv(Len(e.users), Len(e.month_starts)),
                      CeilDiv(Len(e.prods), Len(e.month_starts)),
                      Len(CategoryIds(e.prods))}),
                 LAMBDA required_min :
                    [seed |-> seed, prods |-> e.prods, users |-> e.users,
                     month_starts |-> e.month_starts,
                     category_ids |-> CategoryIds(e.prods),
                     min_invoices |-> MinInvoices,
                     required_min |-> required_min,
                     max_invoices |-> Max({MaxInvoices, required_min})]))

\* the body of the loop for a month without invoices: the rows created in
\* the month's transaction and the cursors afterwards
RunMonth(env, index, ucur, pcur) ==
    CreateInvoices(env, index,
        Max({env.required_min,
             Min({env.max_invoices, env.min_invoices + Draw(env.seed, index, 2)})}),
        0,
        [store |-> <<>>, ucur |-> ucur, pcur |-> pcur,
         remaining |-> MonthlyTotal(env.seed, index)])

\* a run that has not been called
NoRun ==
    [pc |-> "call", seed |-> 0, index |-> 0, ucur |-> 0, pcur |-> 0,
     tx |-> <<>>, raised |-> ""]

RaceInit ==
    /\ AmountIdle
    /\ ExtractIdle
    /\ PromptIdle
    /\ targetMonths \in {1, MaxTargetMonths}
    /\ now = Date(StartMonth, 15)
    /\ \E d \in Deployments :
          /\ productos = d.catalogue.productos
          /\ usuarios = d.catalogue.usuarios
          /\ facturaTable = d.history
          /\ conc = [phase |-> "race", before |-> d.history, origin |-> <<>>,
                     runs |-> [r \in Runs |-> NoRun]]
    /\ modelStore = NoModel
    /\ rsp = [op |-> "none"]

RaceFrame ==
    UNCHANGED <<amt, xfacturas, xorig, xitems, xlines, targetMonths, now,
                productos, usuarios, modelStore, rsp, prm>>

\* ensure_synthetic_invoices(months=TARGET_MONTHS) is called: _load_entities
\* and what precedes the loop
RunStart(r) ==
    /\ conc.phase = "race"
    /\ conc.runs[r].pc = "call"
    /\ \E seed \in {0, MaxSeed} :
          conc' = IF LoadEntitiesRaises(productos, usuarios) # ""
                  THEN [conc EXCEPT !.runs[r].pc = "done",
                                    !.runs[r].raised =
                                        LoadEntitiesRaises(productos, usuarios)]
                  ELSE [conc EXCEPT !.runs[r].pc = "loop", !.runs[r].seed = seed]
    /\ UNCHANGED facturaTable
    /\ RaceFrame

\* the head of the loop for the next month: month_qs.exists() over the
\* committed rows; a month that has an invoice is passed over, for the
\* others the transaction is entered and the month's invoices are created
RunCheckMonth(r) ==
    /\ conc.phase = "race"
    /\ conc.runs[r].pc = "loop"
    /\ conc.runs[r].index < targetMonths
    /\ \E env \in {RunEnv(targetMonths, now, productos, usuarios, conc.runs[r].seed)} :
          IF MonthHasInvoice(facturaTable, env.month_starts[conc.runs[r].index + 1])
          THEN conc' = [conc EXCEPT !.runs[r].index = @ + 1]
          ELSE \E done \in {RunMonth(env, conc.runs[r].index, conc.runs[r].ucur,
                                     conc.runs[r].pcur)} :
                  conc' = [conc EXCEPT !.runs[r].pc = "tx",
                                       !.runs[r].tx = done.store,
                                       !.runs[r].ucur = done.ucur,
                                       !.runs[r].pcur = done.pcur]
    /\ UNCHANGED facturaTable
    /\ RaceFrame

\* the transaction.atomic() block of the month ends: commit
RunCommitMonth(r) ==
    /\ conc.phase = "race"
    /\ conc.runs[r].pc = "tx"
    /\ facturaTable' = facturaTable \o conc.runs[r].tx
    /\ conc' = [conc EXCEPT !.runs[r].pc = "loop", !.runs[r].tx = <<>>,
                            !.runs[r].index = @ + 1,
                            !.origin = @ \o [i \in 1..Len(conc.runs[r].tx) |-> r]]
    /\ RaceFrame

\* return summaries
RunReturn(r) ==
    /\ conc.phase = "race"
    /\ conc.runs[r].pc = "loop"
    /\ conc.runs[r].index >= targetMonths
    /\ conc' = [conc EXCEPT !.runs[r].pc = "done"]
    /\ UNCHANGED facturaTable
    /\ RaceFrame

RaceNext ==
    \E r \in Runs :
       \/ RunStart(r)
       \/ RunCheckMonth(r)
       \/ RunCommitMonth(r)
       \/ RunReturn(r)

SpecRace == RaceInit /\ [][RaceNext]_vars

\* the runs that have added an invoice of the month to the table
RunsOfMonth(month) ==
    {conc.origin[i] :
        i \in {i \in 1..Len(conc.origin) :
                  facturaTable[Len(conc.before) + i].month = month}}

\* C26: while two runs of ensure_synthetic_invoices are under way and after
\* them, the invoices added to a month all come from one run
C26_NoMonthBackfilledTwice ==
    conc.phase = "race" =>
        \A i \in 1..targetMonths :
           Cardinality(RunsOfMonth(_month_starts(targetMonths, now)[i])) <= 1

\* both runs have returned and a month that was empty holds the invoices
\* of both
C26_BackfilledTwice ==
    /\ conc.phase = "race"
    /\ \A r \in Runs : conc.runs[r].pc = "done" /\ conc.runs[r].raised = ""
    /\ \E i \in 1..targetMonths :
          /\ ~MonthHasInvoice(conc.before, _month_starts(targetMonths, now)[i])
          /\ RunsOfMonth(_month_starts(targetMonths, now)[i]) = Runs

\* both runs have returned and every month that was empty holds the
\* invoices of one of them
C26_BackfilledOnce ==
    /\ conc.phase = "race"
    /\ \A r \in Runs : conc.runs[r].pc = "done" /\ conc.runs[r].raised = ""
    /\ conc.origin # <<>>
    /\ \A i \in 1..targetMonths :
          Cardinality(RunsOfMonth(_month_starts(targetMonths, now)[i])) <= 1

====
